---- MODULE Spec2Model ----
(***************************************************************************)
(* The five heap allocators of heap-visualizer (c/heap_1.c .. c/heap_5.c)  *)
(* as one state machine.  One allocator is loaded per behaviour (variant); *)
(* `heap` holds that allocator's file-scope statics, the other variables   *)
(* are the caller's view: the pointers it holds, the last call it made.    *)
(*                                                                         *)
(* The build is wasm32 (emcc, see Makefile): sizeof(size_t) = 4 and        *)
(* pointers are 4 bytes.  Backing memory is modelled word by word; a word  *)
(* holds a size or a pointer, pointers being absolute addresses.           *)
(***************************************************************************)
EXTENDS Integers, Sequences, FiniteSets, TLC

VARIABLES variant, heap, inited, live, dangling, valid, hung, nops, last, thr

vars == <<variant, heap, inited, live, dangling, valid, hung, nops, last, thr>>

(***************************************************************************)
(* Bounds of the model.  MAX_BLOCKS and MAX_LOG_ENTRIES are the capacities *)
(* of the block and log arrays, scaled down from 1000 so that the          *)
(* table-full and log-full paths are reached; every guard on them is the   *)
(* source's.  SizeBits is the width of size_t, scaled down from 32.        *)
(***************************************************************************)
MaxOps == 5
MaxCalls == 3
MAX_BLOCKS == 5
MAX_LOG_ENTRIES == 5
SizeBits == 20

MAX_HEAP_SIZE == 65536
FRAGMENTATION_THRESHOLD == 30
SIZEOF_SIZE_T == 4
SIZEOF_FREE_BLOCK == 8
SIZEOF_FREE_BLOCK_5 == 12
NEXT_FIELD == 4
NEXT_FIELD_5 == 8
REGION_ID_FIELD == 4
SPLIT_SLACK == 16
SHADOW_SLACK == 64
REGION_0_SIZE == 10240
REGION_1_SIZE == 13312
REGION_2_SIZE == 9216
REGION_FLAG_FAST == 1
REGION_FLAG_DMA == 2
REGION_FLAG_UNCACHED == 4
REGION_FLAG_PINNED == 8
NO_REGION == 255
OFFSET_MASK == 65536

NULL == 0
\* Addresses the linker gives the static arrays: distinct, non-overlapping,
\* above every size the model handles.
heap_memory == 262144
heap_region_0 == 327680
heap_region_1 == 393216
heap_region_2 == 458752

BLOCK_FREE == 0
BLOCK_ALLOCATED == 1
BLOCK_FREED == 2

\* Inputs of the calls.
InitSizes == {64, 70000}
ReqSizes == {8, 16, 40}
ReqSizes1 == {0, 20, 40}
ReqSizes3 == {24, 100}
InitSizes3 == {128, 200}
ReqSizes5 == {500, 10208}
FlagSet == {0, REGION_FLAG_FAST, REGION_FLAG_FAST + REGION_FLAG_DMA, REGION_FLAG_PINNED}
HostAddrs == {1048576, 1048704}
InitSizesT == {128}
ReqSizesT == {24, 100}

\* the largest size_t, and the largest multiple of 8 that added to a small
\* heap_offset wraps around
SIZE_MAX == 2 ^ SizeBits - 1
WideSizes == {SIZE_MAX, SIZE_MAX - 63}

Wrap(x) == x % (2 ^ SizeBits)

\* (size + 7) & ~7 in size_t arithmetic
align8(size) == (Wrap(size + 7) \div 8) * 8

Min(a, b) == IF a < b THEN a ELSE b

IsFree(b) == b.state = BLOCK_FREE \/ b.state = BLOCK_FREED

(***************************************************************************)
(* Backing memory: only the words written so far are kept; a static array  *)
(* starts zeroed.                                                          *)
(***************************************************************************)
Rd(mem, a) == IF a \in DOMAIN mem THEN mem[a] ELSE 0

Wr(mem, a, v) == [x \in (DOMAIN mem) \cup {a} |-> IF x = a THEN v ELSE mem[x]]

(***************************************************************************)
(* The statics before heap_init has ever run (zero-initialised storage).   *)
(***************************************************************************)
ZeroStats ==
    [total_size |-> 0, allocated_bytes |-> 0, free_bytes |-> 0,
     allocation_count |-> 0, free_block_count |-> 0, next_allocation_id |-> 0,
     timestamp_counter |-> 0, largest_free_block |-> 0,
     smallest_free_block |-> 0, min_free_bytes |-> 0]

ZeroHeap ==
    [blocks |-> <<>>, logs |-> <<>>, stats |-> ZeroStats, mem |-> <<>>,
     free_list |-> NULL, coalesce_pending |-> 0, heap_offset |-> 0,
     allocation_list |-> <<>>, regions |-> <<>>, free_lists |-> <<NULL, NULL, NULL>>,
     region_count |-> 0, initialized |-> FALSE]

Block(offset, size, state, id, ts, req, rid) ==
    [offset |-> offset, size |-> size, state |-> state, allocation_id |-> id,
     timestamp |-> ts, requested_size |-> req, region_id |-> rid]

(***************************************************************************)
(* heap_common.h                                                           *)
(***************************************************************************)
\* the append without the test of log_count against MAX_LOG_ENTRIES
common_add_log_with_region_NoCap(h, action, alloc_id, size, offset, success, region_id, flags) ==
    [h EXCEPT
        !.logs = Append(@, [action |-> action, allocation_id |-> alloc_id,
                            size |-> size, offset |-> offset, success |-> success,
                            timestamp |-> h.stats.timestamp_counter,
                            region_id |-> region_id, flags |-> flags]),
        !.stats.timestamp_counter = @ + 1]

\* the append that stamps the entry without advancing timestamp_counter
common_add_log_with_region_NoTick(h, action, alloc_id, size, offset, success, region_id, flags) ==
    IF Len(h.logs) >= MAX_LOG_ENTRIES THEN h
    ELSE [h EXCEPT
            !.logs = Append(@, [action |-> action, allocation_id |-> alloc_id,
                                size |-> size, offset |-> offset, success |-> success,
                                timestamp |-> h.stats.timestamp_counter,
                                region_id |-> region_id, flags |-> flags])]

common_add_log_with_region(h, action, alloc_id, size, offset, success, region_id, flags) ==
    IF Len(h.logs) >= MAX_LOG_ENTRIES THEN h
    ELSE [h EXCEPT
            !.logs = Append(@, [action |-> action, allocation_id |-> alloc_id,
                                size |-> size, offset |-> offset, success |-> success,
                                timestamp |-> h.stats.timestamp_counter,
                                region_id |-> region_id, flags |-> flags]),
            !.stats.timestamp_counter = @ + 1]

common_add_log(h, action, alloc_id, size, offset, success) ==
    common_add_log_with_region(h, action, alloc_id, size, offset, success, 0, 0)

Swap(b, i, j) == [b EXCEPT ![i] = b[j], ![j] = b[i]]

RECURSIVE SortInner(_, _, _)
SortInner(b, i, j) ==
    IF j > Len(b) THEN b
    ELSE SortInner(IF b[i].offset > b[j].offset THEN Swap(b, i, j) ELSE b, i, j + 1)

RECURSIVE SortOuter(_, _)
SortOuter(b, i) ==
    IF i >= Len(b) THEN b ELSE SortOuter(SortInner(b, i, i + 1), i + 1)

\* the exchange sort of the block table, by offset alone
common_sort_blocks(b) == SortOuter(b, 1)

RECURSIVE SumSizes(_, _)
SumSizes(b, states) ==
    IF b = <<>> THEN 0
    ELSE (IF Head(b).state \in states THEN Head(b).size ELSE 0) + SumSizes(Tail(b), states)

CountStates(b, states) == Cardinality({i \in 1..Len(b) : b[i].state \in states})

FreeSizes(b) == {b[i].size : i \in {k \in 1..Len(b) : IsFree(b[k])}}

MaxOf(S) == IF S = {} THEN 0 ELSE CHOOSE x \in S : \A y \in S : y <= x
MinOf(S) == IF S = {} THEN 0 ELSE CHOOSE x \in S : \A y \in S : x <= y

\* the low-water mark as the source keeps it
MinFreeAfter(min_free_bytes, free_bytes) ==
    IF min_free_bytes = 0 \/ free_bytes < min_free_bytes THEN free_bytes
    ELSE min_free_bytes

common_update_stats(b, st) ==
    LET free == SumSizes(b, {BLOCK_FREE, BLOCK_FREED})
    IN  [st EXCEPT
            !.allocated_bytes = SumSizes(b, {BLOCK_ALLOCATED}),
            !.free_bytes = free,
            !.allocation_count = CountStates(b, {BLOCK_ALLOCATED}),
            !.free_block_count = CountStates(b, {BLOCK_FREE, BLOCK_FREED}),
            !.largest_free_block = MaxOf(FreeSizes(b)),
            !.smallest_free_block =
                IF CountStates(b, {BLOCK_FREE, BLOCK_FREED}) = 0 THEN 0
                ELSE Min(st.total_size, MinOf(FreeSizes(b))),
            !.min_free_bytes = MinFreeAfter(st.min_free_bytes, free)]

\* stats.external_fragmentation > FRAGMENTATION_THRESHOLD.  The float
\* (1.0f - largest/free) * 100.0f is above 30.0f exactly when
\* largest/free <= 7/10: at the ratio 7/10 itself single precision gives
\* 30.000002.  The field is a function of free_bytes and largest_free_block,
\* which are only ever written together with it.
external_fragmentation_above_threshold(st) ==
    /\ st.free_bytes > 0
    /\ st.largest_free_block > 0
    /\ 100 * st.largest_free_block <= (100 - FRAGMENTATION_THRESHOLD) * st.free_bytes

(***************************************************************************)
(* The intrusive free list (heap_2.c, heap_4.c): node = {size, next}.      *)
(* Walk follows next pointers from p; it stops at NULL, or when it meets   *)
(* a node again (the C loop then never ends).                              *)
(***************************************************************************)
RECURSIVE Walk(_, _, _, _)
Walk(mem, p, nextField, seen) ==
    IF p = NULL THEN [nodes |-> seen, cyclic |-> FALSE]
    ELSE IF \E k \in 1..Len(seen) : seen[k] = p THEN [nodes |-> seen, cyclic |-> TRUE]
    ELSE Walk(mem, Rd(mem, p + nextField), nextField, Append(seen, p))

\* the search loop with the test "(*current)->size < best_fit->size" left
\* out: the first node that fits is kept
RECURSIVE BestFitFrom_FirstFit(_, _, _, _, _)
BestFitFrom_FirstFit(mem, nodes, total, k, best) ==
    IF k > Len(nodes) THEN best
    ELSE BestFitFrom_FirstFit(mem, nodes, total, k + 1,
            IF Rd(mem, nodes[k]) >= total /\ best = 0 THEN k ELSE best)

\* while (*current) { if ((*current)->size >= total_size) if (!best_fit ||
\* (*current)->size < best_fit->size) ...}: index of the selected node in
\* nodes, 0 when none fits; `best` is the index selected so far.
RECURSIVE BestFitFrom(_, _, _, _, _)
BestFitFrom(mem, nodes, total, k, best) ==
    IF k > Len(nodes) THEN best
    ELSE BestFitFrom(mem, nodes, total, k + 1,
            IF Rd(mem, nodes[k]) >= total
               /\ (best = 0 \/ Rd(mem, nodes[k]) < Rd(mem, nodes[best]))
            THEN k ELSE best)

BestFit(mem, nodes, total) == BestFitFrom(mem, nodes, total, 1, 0)

\* first table row at `offset` whose state is in `states`; 0 when none
FindBlock(b, offset, states) ==
    IF \E i \in 1..Len(b) : b[i].offset = offset /\ b[i].state \in states
    THEN CHOOSE i \in 1..Len(b) :
            /\ b[i].offset = offset /\ b[i].state \in states
            /\ \A j \in 1..(i - 1) : ~(b[j].offset = offset /\ b[j].state \in states)
    ELSE 0

RemoveAt(b, i) == SubSeq(b, 1, i - 1) \o SubSeq(b, i + 1, Len(b))

(***************************************************************************)
(* Allocator 4 (heap_4.c): best fit, split, immediate-neighbour coalesce   *)
(* on free, deferred full coalesce.                                        *)
(***************************************************************************)
\* the left-neighbour step of immediate_neighbor_coalesce; c = [b, idx, n, did]
\* the left-neighbour step with line 50 ("blocks[freed_idx - 1].state =
\* BLOCK_FREE") left out: the merged row keeps the neighbour's state
CoalesceLeft4_KeepsState(c) ==
    LET b == c.b  i == c.idx IN
    IF i > 1 /\ IsFree(b[i - 1]) /\ b[i - 1].offset + b[i - 1].size = b[i].offset
    THEN [b |-> RemoveAt([b EXCEPT ![i - 1].size = @ + b[i].size], i),
          idx |-> i - 1, n |-> c.n + 1, did |-> TRUE]
    ELSE c

CoalesceLeft4(c) ==
    LET b == c.b  i == c.idx IN
    IF i > 1 /\ IsFree(b[i - 1]) /\ b[i - 1].offset + b[i - 1].size = b[i].offset
    THEN [b |-> RemoveAt([b EXCEPT ![i - 1].size = @ + b[i].size,
                                   ![i - 1].state = BLOCK_FREE], i),
          idx |-> i - 1, n |-> c.n + 1, did |-> TRUE]
    ELSE c

\* the right-neighbour step
\* the coalesce with its right-neighbour branch left out
CoalesceRight4_Skipped(c) == c

CoalesceRight4(c) ==
    LET b == c.b  i == c.idx IN
    IF i >= 1 /\ i < Len(b) /\ IsFree(b[i + 1])
       /\ b[i].offset + b[i].size = b[i + 1].offset
    THEN [b |-> RemoveAt([b EXCEPT ![i].size = @ + b[i + 1].size,
                                   ![i].state = BLOCK_FREE], i + 1),
          idx |-> i, n |-> c.n + 1, did |-> TRUE]
    ELSE c

immediate_neighbor_coalesce4(h, freed_offset) ==
    LET b == common_sort_blocks(h.blocks)
        freed_idx == FindBlock(b, freed_offset, {BLOCK_FREE, BLOCK_ALLOCATED, BLOCK_FREED})
    IN  IF freed_idx = 0 THEN [h EXCEPT !.blocks = b]
        ELSE LET c == CoalesceRight4(CoalesceLeft4(
                        [b |-> b, idx |-> freed_idx, n |-> 0, did |-> FALSE]))
                 h1 == [h EXCEPT !.blocks = c.b,
                                 !.stats.free_block_count = @ - c.n]
             IN  IF c.did THEN common_add_log(h1, "COALESCE", 0, 0, freed_offset, 1)
                 ELSE h1

\* the sweep of full_coalesce over the sorted table: out = rows written so
\* far (the last one is blocks[write_idx]), n = coalesce_count
RECURSIVE Sweep(_, _, _, _, _)
Sweep(b, i, out, n, sameRegion) ==
    IF i > Len(b) THEN [b |-> out, n |-> n]
    ELSE LET w == Len(out) IN
         IF w > 0 /\ out[w].state = BLOCK_FREE /\ IsFree(b[i])
            /\ (sameRegion => out[w].region_id = b[i].region_id)
            /\ out[w].offset + out[w].size = b[i].offset
         THEN Sweep(b, i + 1,
                    [out EXCEPT ![w].size = @ + b[i].size, ![w].allocation_id = 0],
                    n + 1, sameRegion)
         ELSE Sweep(b, i + 1,
                    Append(out, IF b[i].state = BLOCK_FREED
                                THEN [b[i] EXCEPT !.state = BLOCK_FREE,
                                                  !.allocation_id = 0]
                                ELSE b[i]),
                    n, sameRegion)

SweepRows(b, sameRegion) == Sweep(b, 1, <<>>, 0, sameRegion)

\* "Rebuild free list": every Free row is pushed at the head, in table order
RECURSIVE Rebuild4(_, _, _, _)
Rebuild4(b, i, mem, head) ==
    IF i > Len(b) THEN [mem |-> mem, head |-> head]
    ELSE IF b[i].state = BLOCK_FREE
         THEN LET fb == heap_memory + b[i].offset
              IN  Rebuild4(b, i + 1,
                           Wr(Wr(mem, fb, b[i].size), fb + NEXT_FIELD, head), fb)
         ELSE Rebuild4(b, i + 1, mem, head)

full_coalesce4(h) ==
    LET s == SweepRows(common_sort_blocks(h.blocks), FALSE)
        h1 == [h EXCEPT !.blocks = s.b, !.stats.free_block_count = @ - s.n]
        h2 == IF s.n > 0 THEN common_add_log(h1, "FULL_COALESCE", 0, s.n, 0, 1) ELSE h1
        r == Rebuild4(h2.blocks, 1, h2.mem, NULL)
    IN  [h2 EXCEPT !.mem = r.mem, !.free_list = r.head, !.coalesce_pending = 0]

heap4_init(h, size) ==
    LET total == IF size > MAX_HEAP_SIZE THEN MAX_HEAP_SIZE ELSE size
        st == [ZeroStats EXCEPT !.total_size = total, !.next_allocation_id = 1,
                                !.min_free_bytes = total, !.timestamp_counter = 1,
                                !.free_block_count = 1]
        b == <<Block(0, total, BLOCK_FREE, 0, 0, 0, 0)>>
        h1 == [h EXCEPT
                !.mem = Wr(Wr(h.mem, heap_memory, total), heap_memory + NEXT_FIELD, NULL),
                !.free_list = heap_memory,
                !.blocks = b, !.logs = <<>>, !.coalesce_pending = 0,
                !.stats = common_update_stats(b, st)]
    IN  common_add_log(h1, "INIT", 0, size, 0, 1)

\* the table update of heap_malloc once best_fit at `offset` is unlinked:
\* split when the row is large enough and the table has room, then mark
\* the split with line 231 ("blocks[i].size = total_size") left out
SplitAndMark4_NoShrink(h, offset, total, requested_size) ==
    LET i == FindBlock(h.blocks, offset, {BLOCK_FREE, BLOCK_FREED}) IN
    IF i = 0 THEN h
    ELSE LET original == h.blocks[i].size
             remainder == heap_memory + offset + total
             h1 == IF original > Wrap(total + SIZEOF_FREE_BLOCK + SPLIT_SLACK)
                      /\ Len(h.blocks) < MAX_BLOCKS
                   THEN [h EXCEPT
                           !.blocks = Append(@, Block(offset + total, original - total,
                                                      h.blocks[i].state, 0,
                                                      h.stats.timestamp_counter, 0, 0)),
                           !.stats.timestamp_counter = @ + 1,
                           !.mem = Wr(Wr(@, remainder, original - total),
                                      remainder + NEXT_FIELD, h.free_list),
                           !.free_list = remainder]
                   ELSE h
         IN  [h1 EXCEPT
                !.blocks[i].state = BLOCK_ALLOCATED,
                !.blocks[i].allocation_id = h1.stats.next_allocation_id,
                !.blocks[i].timestamp = h1.stats.timestamp_counter,
                !.blocks[i].requested_size = requested_size,
                !.stats.timestamp_counter = @ + 1]

SplitAndMark4(h, offset, total, requested_size) ==
    LET i == FindBlock(h.blocks, offset, {BLOCK_FREE, BLOCK_FREED}) IN
    IF i = 0 THEN h
    ELSE LET original == h.blocks[i].size
             big == original > Wrap(total + SIZEOF_FREE_BLOCK + SPLIT_SLACK)
             split == big /\ Len(h.blocks) < MAX_BLOCKS
             remainder == heap_memory + offset + total
             h1 == IF split
                   THEN [h EXCEPT
                           !.blocks = Append([@ EXCEPT ![i].size = total],
                                             Block(offset + total, original - total,
                                                   h.blocks[i].state, 0,
                                                   h.stats.timestamp_counter, 0, 0)),
                           !.stats.timestamp_counter = @ + 1,
                           !.mem = Wr(Wr(@, remainder, original - total),
                                      remainder + NEXT_FIELD, h.free_list),
                           !.free_list = remainder]
                   ELSE IF ~big THEN [h EXCEPT !.stats.free_block_count = @ - 1]
                   ELSE h
         IN  [h1 EXCEPT
                !.blocks[i].state = BLOCK_ALLOCATED,
                !.blocks[i].allocation_id = h1.stats.next_allocation_id,
                !.blocks[i].timestamp = h1.stats.timestamp_counter,
                !.blocks[i].requested_size = requested_size,
                !.stats.timestamp_counter = @ + 1]

\* "*best_prev = best_fit->next": nodes[k] leaves the list it was found in
Unlink(h, nodes, k, nextField) ==
    IF k = 1 THEN [h EXCEPT !.free_list = Rd(h.mem, nodes[k] + nextField)]
    ELSE [h EXCEPT !.mem = Wr(@, nodes[k - 1] + nextField, Rd(h.mem, nodes[k] + nextField))]

\* heap_malloc from the unlinking of the selected node to the return
Take4(h, nodes, k, size) ==
    LET aligned == align8(size)
        total == Wrap(aligned + SIZEOF_SIZE_T)
        best_fit == nodes[k]
        h1 == Unlink(h, nodes, k, NEXT_FIELD)
        h2 == [h1 EXCEPT !.mem = Wr(@, best_fit, aligned)]
        offset == best_fit - heap_memory
        h3 == SplitAndMark4(h2, offset, total, size)
        h4 == common_add_log(h3, "MALLOC", h3.stats.next_allocation_id, size, offset, 1)
        h5 == [h4 EXCEPT !.stats.next_allocation_id = @ + 1]
        b == common_sort_blocks(h5.blocks)
    IN  [h |-> [h5 EXCEPT !.blocks = b, !.stats = common_update_stats(b, h5.stats)],
         ret |-> best_fit + SIZEOF_SIZE_T, hang |-> FALSE]

Fail4(h, size) ==
    [h |-> common_add_log(h, "MALLOC", h.stats.next_allocation_id, size, 0, 0),
     ret |-> NULL, hang |-> FALSE]

\* heap_malloc with lines 181-194 left out: no forced full coalesce, no retry
heap4_malloc_NoRetry(h, size) ==
    LET total == Wrap(align8(size) + SIZEOF_SIZE_T)
        h1 == [h EXCEPT !.stats = common_update_stats(h.blocks, h.stats)]
        h2 == IF h1.coalesce_pending # 0 /\ external_fragmentation_above_threshold(h1.stats)
              THEN LET f == full_coalesce4(h1)
                   IN  [f EXCEPT !.stats = common_update_stats(f.blocks, f.stats)]
              ELSE h1
        w1 == Walk(h2.mem, h2.free_list, NEXT_FIELD, <<>>)
        k1 == BestFit(h2.mem, w1.nodes, total)
    IN  IF w1.cyclic THEN [h |-> h2, ret |-> NULL, hang |-> TRUE]
        ELSE IF k1 # 0 THEN Take4(h2, w1.nodes, k1, size)
        ELSE Fail4(h2, size)

heap4_malloc(h, size) ==
    LET total == Wrap(align8(size) + SIZEOF_SIZE_T)
        h1 == [h EXCEPT !.stats = common_update_stats(h.blocks, h.stats)]
        h2 == IF h1.coalesce_pending # 0 /\ external_fragmentation_above_threshold(h1.stats)
              THEN LET f == full_coalesce4(h1)
                   IN  [f EXCEPT !.stats = common_update_stats(f.blocks, f.stats)]
              ELSE h1
        w1 == Walk(h2.mem, h2.free_list, NEXT_FIELD, <<>>)
        k1 == BestFit(h2.mem, w1.nodes, total)
    IN  IF w1.cyclic THEN [h |-> h2, ret |-> NULL, hang |-> TRUE]
        ELSE IF k1 # 0 THEN Take4(h2, w1.nodes, k1, size)
        ELSE IF h2.coalesce_pending = 0 THEN Fail4(h2, size)
        ELSE LET h3 == full_coalesce4(h2)
                 w2 == Walk(h3.mem, h3.free_list, NEXT_FIELD, <<>>)
                 k2 == BestFit(h3.mem, w2.nodes, total)
             IN  IF w2.cyclic THEN [h |-> h3, ret |-> NULL, hang |-> TRUE]
                 ELSE IF k2 # 0 THEN Take4(h3, w2.nodes, k2, size)
                 ELSE Fail4(h3, size)

\* heap_free(ptr), ptr non-null
heap4_free(h, ptr) ==
    LET block_start == ptr - SIZEOF_SIZE_T
        user_size == Rd(h.mem, block_start)
        total == Wrap(user_size + SIZEOF_SIZE_T)
        offset == block_start - heap_memory
        i == FindBlock(h.blocks, offset, {BLOCK_ALLOCATED})
        alloc_id == IF i = 0 THEN 0 ELSE h.blocks[i].allocation_id
        h1 == IF i = 0 THEN h
              ELSE [h EXCEPT !.blocks[i].state = BLOCK_FREED,
                             !.blocks[i].allocation_id = 0,
                             !.blocks[i].requested_size = 0,
                             !.stats.free_block_count = @ + 1]
        h2 == [h1 EXCEPT !.mem = Wr(Wr(@, block_start, total),
                                    block_start + NEXT_FIELD, h1.free_list),
                         !.free_list = block_start]
        h3 == [immediate_neighbor_coalesce4(h2, offset) EXCEPT !.coalesce_pending = 1]
        h4 == common_add_log(h3, "FREE", alloc_id, 0, offset, 1)
        b == common_sort_blocks(h4.blocks)
    IN  [h4 EXCEPT !.blocks = b, !.stats = common_update_stats(b, h4.stats)]

heap4_reset(h) == heap4_init(h, h.stats.total_size)

(***************************************************************************)
(* Allocator 2 (heap_2.c): best fit, split, no coalescing.  Its add_log,   *)
(* update_stats and sort_blocks are private copies of the common ones.     *)
(***************************************************************************)
add_log2(h, action, alloc_id, size, offset, success) ==
    common_add_log(h, action, alloc_id, size, offset, success)

update_stats2(b, st) == common_update_stats(b, st)

sort_blocks2(b) == common_sort_blocks(b)

\* heap_init with the clamp to MAX_HEAP_SIZE left out
heap2_init_NoClamp(h, size) ==
    LET st == [ZeroStats EXCEPT !.total_size = size, !.next_allocation_id = 1,
                                !.min_free_bytes = size, !.timestamp_counter = 1]
        b == <<Block(0, size, BLOCK_FREE, 0, 0, 0, 0)>>
        h1 == [h EXCEPT
                !.mem = Wr(Wr(h.mem, heap_memory, size), heap_memory + NEXT_FIELD, NULL),
                !.free_list = heap_memory,
                !.blocks = b, !.logs = <<>>,
                !.stats = update_stats2(b, st)]
    IN  add_log2(h1, "INIT", 0, size, 0, 1)

heap2_init(h, size) ==
    LET total == IF size > MAX_HEAP_SIZE THEN MAX_HEAP_SIZE ELSE size
        st == [ZeroStats EXCEPT !.total_size = total, !.next_allocation_id = 1,
                                !.min_free_bytes = total, !.timestamp_counter = 1]
        b == <<Block(0, total, BLOCK_FREE, 0, 0, 0, 0)>>
        h1 == [h EXCEPT
                !.mem = Wr(Wr(h.mem, heap_memory, total), heap_memory + NEXT_FIELD, NULL),
                !.free_list = heap_memory,
                !.blocks = b, !.logs = <<>>,
                !.stats = update_stats2(b, st)]
    IN  add_log2(h1, "INIT", 0, size, 0, 1)

\* the table update of heap_malloc with line 178 changed to give the
\* remainder the state BLOCK_FREE whatever the state of the split row
SplitAndMark2_RemainderFree(h, offset, total, requested_size) ==
    LET i == FindBlock(h.blocks, offset, {BLOCK_FREE, BLOCK_FREED}) IN
    IF i = 0 THEN h
    ELSE LET original == h.blocks[i].size
             split == /\ original > Wrap(total + SIZEOF_FREE_BLOCK + SPLIT_SLACK)
                      /\ Len(h.blocks) < MAX_BLOCKS
             remainder == heap_memory + offset + total
             h1 == IF split
                   THEN [h EXCEPT
                           !.blocks = Append([@ EXCEPT ![i].size = total],
                                             Block(offset + total, original - total,
                                                   BLOCK_FREE, 0,
                                                   h.stats.timestamp_counter, 0, 0)),
                           !.stats.timestamp_counter = @ + 1,
                           !.mem = Wr(Wr(@, remainder, original - total),
                                      remainder + NEXT_FIELD, h.free_list),
                           !.free_list = remainder]
                   ELSE h
         IN  [h1 EXCEPT
                !.blocks[i].state = BLOCK_ALLOCATED,
                !.blocks[i].allocation_id = h1.stats.next_allocation_id,
                !.blocks[i].timestamp = h1.stats.timestamp_counter,
                !.blocks[i].requested_size = requested_size,
                !.stats.timestamp_counter = @ + 1]

SplitAndMark2(h, offset, total, requested_size) ==
    LET i == FindBlock(h.blocks, offset, {BLOCK_FREE, BLOCK_FREED}) IN
    IF i = 0 THEN h
    ELSE LET original == h.blocks[i].size
             split == /\ original > Wrap(total + SIZEOF_FREE_BLOCK + SPLIT_SLACK)
                      /\ Len(h.blocks) < MAX_BLOCKS
             remainder == heap_memory + offset + total
             h1 == IF split
                   THEN [h EXCEPT
                           !.blocks = Append([@ EXCEPT ![i].size = total],
                                             Block(offset + total, original - total,
                                                   h.blocks[i].state, 0,
                                                   h.stats.timestamp_counter, 0, 0)),
                           !.stats.timestamp_counter = @ + 1,
                           !.mem = Wr(Wr(@, remainder, original - total),
                                      remainder + NEXT_FIELD, h.free_list),
                           !.free_list = remainder]
                   ELSE h
         IN  [h1 EXCEPT
                !.blocks[i].state = BLOCK_ALLOCATED,
                !.blocks[i].allocation_id = h1.stats.next_allocation_id,
                !.blocks[i].timestamp = h1.stats.timestamp_counter,
                !.blocks[i].requested_size = requested_size,
                !.stats.timestamp_counter = @ + 1]

heap2_malloc(h, size) ==
    LET aligned == align8(size)
        total == Wrap(aligned + SIZEOF_SIZE_T)
        w == Walk(h.mem, h.free_list, NEXT_FIELD, <<>>)
        k == BestFit(h.mem, w.nodes, total)
    IN  IF w.cyclic THEN [h |-> h, ret |-> NULL, hang |-> TRUE]
        ELSE IF k = 0
        THEN [h |-> add_log2(h, "MALLOC", h.stats.next_allocation_id, size, 0, 0),
              ret |-> NULL, hang |-> FALSE]
        ELSE LET best_fit == w.nodes[k]
                 h1 == Unlink(h, w.nodes, k, NEXT_FIELD)
                 h2 == [h1 EXCEPT !.mem = Wr(@, best_fit, aligned)]
                 offset == best_fit - heap_memory
                 h3 == SplitAndMark2(h2, offset, total, size)
                 h4 == add_log2(h3, "MALLOC", h3.stats.next_allocation_id, size, offset, 1)
                 h5 == [h4 EXCEPT !.stats.next_allocation_id = @ + 1]
                 b == sort_blocks2(h5.blocks)
             IN  [h |-> [h5 EXCEPT !.blocks = b, !.stats = update_stats2(b, h5.stats)],
                  ret |-> best_fit + SIZEOF_SIZE_T, hang |-> FALSE]

\* heap_free that also takes a Freed row at the pointer's offset, and shows
\* it as Free
heap2_free_AnyState(h, ptr) ==
    LET block_start == ptr - SIZEOF_SIZE_T
        user_size == Rd(h.mem, block_start)
        total == Wrap(user_size + SIZEOF_SIZE_T)
        offset == block_start - heap_memory
        i == FindBlock(h.blocks, offset, {BLOCK_ALLOCATED, BLOCK_FREED})
        alloc_id == IF i = 0 THEN 0 ELSE h.blocks[i].allocation_id
        h1 == IF i = 0 THEN h
              ELSE [h EXCEPT !.blocks[i].state = IF @ = BLOCK_ALLOCATED THEN BLOCK_FREED
                                                   ELSE BLOCK_FREE,
                             !.blocks[i].allocation_id = 0,
                             !.blocks[i].requested_size = 0]
        h2 == [h1 EXCEPT !.mem = Wr(Wr(@, block_start, total),
                                    block_start + NEXT_FIELD, h1.free_list),
                         !.free_list = block_start]
        h3 == add_log2(h2, "FREE", alloc_id, 0, offset, 1)
        b == sort_blocks2(h3.blocks)
    IN  [h3 EXCEPT !.blocks = b, !.stats = update_stats2(b, h3.stats)]

\* heap_free that merges the freed block with its free neighbours, as
\* Allocator 4 does
heap2_free_Merging(h, ptr) == heap4_free(h, ptr)

heap2_free(h, ptr) ==
    LET block_start == ptr - SIZEOF_SIZE_T
        user_size == Rd(h.mem, block_start)
        total == Wrap(user_size + SIZEOF_SIZE_T)
        offset == block_start - heap_memory
        i == FindBlock(h.blocks, offset, {BLOCK_ALLOCATED})
        alloc_id == IF i = 0 THEN 0 ELSE h.blocks[i].allocation_id
        h1 == IF i = 0 THEN h
              ELSE [h EXCEPT !.blocks[i].state = BLOCK_FREED,
                             !.blocks[i].allocation_id = 0,
                             !.blocks[i].requested_size = 0]
        h2 == [h1 EXCEPT !.mem = Wr(Wr(@, block_start, total),
                                    block_start + NEXT_FIELD, h1.free_list),
                         !.free_list = block_start]
        h3 == add_log2(h2, "FREE", alloc_id, 0, offset, 1)
        b == sort_blocks2(h3.blocks)
    IN  [h3 EXCEPT !.blocks = b, !.stats = update_stats2(b, h3.stats)]

heap2_reset(h) == heap2_init(h, h.stats.total_size)

(***************************************************************************)
(* Allocator 1 (heap_1.c): bump allocator.                                 *)
(***************************************************************************)
update_stats1(h) ==
    LET free == h.stats.total_size - h.heap_offset
        b == h.blocks
    IN  [h.stats EXCEPT
            !.allocated_bytes = h.heap_offset,
            !.free_bytes = free,
            !.allocation_count = CountStates(b, {BLOCK_ALLOCATED}),
            !.free_block_count = IF CountStates(b, {BLOCK_FREE}) > 0 THEN 1 ELSE 0,
            !.largest_free_block = IF free > 0 THEN free ELSE 0,
            !.smallest_free_block = IF free > 0 THEN free ELSE 0,
            !.min_free_bytes = MinFreeAfter(h.stats.min_free_bytes, free)]

heap1_init(h, size) ==
    LET total == IF size > MAX_HEAP_SIZE THEN MAX_HEAP_SIZE ELSE size
        st == [ZeroStats EXCEPT !.total_size = total, !.next_allocation_id = 1,
                                !.min_free_bytes = total, !.timestamp_counter = 1,
                                !.free_block_count = 1]
        h1 == [h EXCEPT !.heap_offset = 0, !.logs = <<>>, !.stats = st,
                        !.blocks = <<Block(0, total, BLOCK_FREE, 0, 0, 0, 0)>>]
        h2 == [h1 EXCEPT !.stats = update_stats1(h1)]
    IN  common_add_log(h2, "INIT", 0, size, 0, 1)

\* the table update of heap_malloc: append the allocation, move the Free row
\* behind it, drop the Free row when it becomes empty
\* the table update of heap_malloc with the guard "allocation_count <
\* MAX_LOG_ENTRIES - 1" of line 91 left out
RecordAllocation1_NoGuard(h, aligned, requested_size) ==
    LET any_free == \E i \in 1..Len(h.blocks) : h.blocks[i].state = BLOCK_FREE
        fi == IF any_free
              THEN CHOOSE i \in 1..Len(h.blocks) :
                     /\ h.blocks[i].state = BLOCK_FREE
                     /\ \A j \in 1..(i - 1) : h.blocks[j].state # BLOCK_FREE
              ELSE 0
    IN  IF fi # 0
        THEN LET b1 == Append(h.blocks,
                         Block(h.heap_offset, aligned, BLOCK_ALLOCATED,
                               h.stats.next_allocation_id, h.stats.timestamp_counter,
                               requested_size, 0))
                 rest == h.stats.total_size - (h.heap_offset + aligned)
                 b2 == [b1 EXCEPT ![fi].offset = h.heap_offset + aligned,
                                  ![fi].size = rest]
                 b3 == IF rest = 0 THEN RemoveAt(b2, fi) ELSE b2
             IN  [h EXCEPT !.blocks = b3, !.stats.timestamp_counter = @ + 1]
        ELSE h

RecordAllocation1(h, aligned, requested_size) ==
    LET any_free == \E i \in 1..Len(h.blocks) : h.blocks[i].state = BLOCK_FREE
        fi == IF any_free
              THEN CHOOSE i \in 1..Len(h.blocks) :
                     /\ h.blocks[i].state = BLOCK_FREE
                     /\ \A j \in 1..(i - 1) : h.blocks[j].state # BLOCK_FREE
              ELSE 0
    IN  IF fi # 0 /\ Len(h.blocks) < MAX_LOG_ENTRIES - 1
        THEN LET b1 == Append(h.blocks,
                         Block(h.heap_offset, aligned, BLOCK_ALLOCATED,
                               h.stats.next_allocation_id, h.stats.timestamp_counter,
                               requested_size, 0))
                 rest == h.stats.total_size - (h.heap_offset + aligned)
                 b2 == [b1 EXCEPT ![fi].offset = h.heap_offset + aligned,
                                  ![fi].size = rest]
                 b3 == IF rest = 0 THEN RemoveAt(b2, fi) ELSE b2
             IN  [h EXCEPT !.blocks = b3, !.stats.timestamp_counter = @ + 1]
        ELSE h

heap1_malloc(h, size) ==
    LET aligned == align8(size) IN
    IF Wrap(h.heap_offset + aligned) > h.stats.total_size
    THEN [h |-> common_add_log(h, "MALLOC", h.stats.next_allocation_id, size, 0, 0),
          ret |-> NULL, hang |-> FALSE]
    ELSE LET h1 == RecordAllocation1(h, aligned, size)
             h2 == common_add_log(h1, "MALLOC", h1.stats.next_allocation_id, size,
                                  h1.heap_offset, 1)
             h3 == [h2 EXCEPT !.stats.next_allocation_id = @ + 1,
                              !.heap_offset = Wrap(@ + aligned)]
         IN  [h |-> [h3 EXCEPT !.stats = update_stats1(h3)],
              ret |-> heap_memory + h.heap_offset, hang |-> FALSE]

\* heap_free that gives the heap back from ptr on
heap1_free_Rewinds(h, ptr) ==
    [common_add_log(h, "FREE", 0, 0, ptr - heap_memory, 0)
        EXCEPT !.heap_offset = ptr - heap_memory]

heap1_free(h, ptr) == common_add_log(h, "FREE", 0, 0, ptr - heap_memory, 0)

heap1_reset(h) == heap1_init(h, h.stats.total_size)

(***************************************************************************)
(* Allocator 3 (heap_3.c): the host allocator behind a mutex, with a       *)
(* tracking list and a simulated (shadow) block table.  The host's answer  *)
(* is an input: ptr is the address malloc(aligned_size) returned (NULL on  *)
(* failure), node_ok whether the tracking node could be allocated.         *)
(***************************************************************************)
\* heap_init, lines 61-72: the statistics reset, the tracking list emptied
heap3_init_clear(h, size) ==
    [h EXCEPT !.allocation_list = <<>>,
              !.stats = [ZeroStats EXCEPT !.total_size = size, !.next_allocation_id = 1,
                                          !.min_free_bytes = size]]

\* heap_init, lines 74-87: the one-row table, the statistics, the INIT entry
heap3_init_table(h, size) ==
    LET st == [h.stats EXCEPT !.timestamp_counter = @ + 1,
                              !.free_block_count = 1, !.free_bytes = h.stats.total_size]
        b == <<Block(0, h.stats.total_size, BLOCK_FREE, 0, h.stats.timestamp_counter, 0, 0)>>
        h1 == [h EXCEPT !.blocks = b, !.logs = <<>>, !.stats = common_update_stats(b, st)]
    IN  common_add_log(h1, "INIT", 0, size, 0, 1)

heap3_init(h, size) == heap3_init_table(heap3_init_clear(h, size), size)

\* "Update blocks for visualization": first fit over the Free shadow rows
ShadowAllocate3(h, aligned, requested_size, id) ==
    LET b == h.blocks
        fits(i) == b[i].state = BLOCK_FREE /\ b[i].size >= aligned
        free_idx == IF \E i \in 1..Len(b) : fits(i)
                    THEN CHOOSE i \in 1..Len(b) : fits(i) /\ \A j \in 1..(i - 1) : ~fits(j)
                    ELSE 0
    IN  IF free_idx # 0 /\ Len(b) < MAX_BLOCKS
        THEN LET original_size == b[free_idx].size
                 original_offset == b[free_idx].offset
                 b1 == [b EXCEPT ![free_idx].size = aligned,
                                 ![free_idx].state = BLOCK_ALLOCATED,
                                 ![free_idx].allocation_id = id,
                                 ![free_idx].timestamp = h.stats.timestamp_counter,
                                 ![free_idx].requested_size = requested_size]
                 h1 == [h EXCEPT !.blocks = b1, !.stats.timestamp_counter = @ + 1]
             IN  IF original_size > Wrap(aligned + SHADOW_SLACK) /\ Len(b) < MAX_BLOCKS - 1
                 THEN [h1 EXCEPT
                         !.blocks = Append(@, Block(original_offset + aligned,
                                                    original_size - aligned, BLOCK_FREE, 0,
                                                    h1.stats.timestamp_counter, 0, 0)),
                         !.stats.timestamp_counter = @ + 1]
                 ELSE h1
        ELSE h

\* heap_malloc with "stats.next_allocation_id++" left out
heap3_malloc_SameId(h, size, ptr, node_ok) ==
    LET aligned == align8(size)
        id == h.stats.next_allocation_id
        h1 == h
        h2 == IF node_ok
              THEN [h1 EXCEPT
                      !.allocation_list =
                          <<[ptr |-> ptr, size |-> aligned, requested_size |-> size,
                             id |-> id, timestamp |-> h1.stats.timestamp_counter]>> \o @,
                      !.stats.timestamp_counter = @ + 1]
              ELSE h1
        h3 == ShadowAllocate3(h2, aligned, size, id)
        h4 == IF ptr # NULL
              THEN common_add_log(h3, "MALLOC", id, size, ptr % OFFSET_MASK, 1)
              ELSE common_add_log(h, "MALLOC", h.stats.next_allocation_id, size, 0, 0)
        b == common_sort_blocks(h4.blocks)
    IN  [h |-> [h4 EXCEPT !.blocks = b, !.stats = common_update_stats(b, h4.stats)],
         ret |-> ptr, hang |-> FALSE]

\* heap_malloc, lines 95-152: the host call, the tracking node, the shadow
\* rows and the MALLOC entry
heap3_malloc_record(h, size, ptr, node_ok) ==
    LET aligned == align8(size)
        id == h.stats.next_allocation_id
        h1 == [h EXCEPT !.stats.next_allocation_id = @ + 1]
        h2 == IF node_ok
              THEN [h1 EXCEPT
                      !.allocation_list =
                          <<[ptr |-> ptr, size |-> aligned, requested_size |-> size,
                             id |-> id, timestamp |-> h1.stats.timestamp_counter]>> \o @,
                      !.stats.timestamp_counter = @ + 1]
              ELSE h1
        h3 == ShadowAllocate3(h2, aligned, size, id)
    IN  IF ptr # NULL
        THEN common_add_log(h3, "MALLOC", id, size, ptr % OFFSET_MASK, 1)
        ELSE common_add_log(h, "MALLOC", h.stats.next_allocation_id, size, 0, 0)

\* heap_malloc, lines 154-155: common_sort_blocks, update_stats
heap3_malloc_finish(h) ==
    LET b == common_sort_blocks(h.blocks)
    IN  [h EXCEPT !.blocks = b, !.stats = common_update_stats(b, h.stats)]

heap3_malloc(h, size, ptr, node_ok) ==
    [h |-> heap3_malloc_finish(heap3_malloc_record(h, size, ptr, node_ok)),
     ret |-> ptr, hang |-> FALSE]

\* heap_free(ptr), ptr non-null, lines 167-190
heap3_free_record(h, ptr) ==
    LET al == h.allocation_list
        tracked == \E k \in 1..Len(al) : al[k].ptr = ptr
        n == IF tracked
             THEN CHOOSE k \in 1..Len(al) :
                    al[k].ptr = ptr /\ \A j \in 1..(k - 1) : al[j].ptr # ptr
             ELSE 0
        id == IF tracked THEN al[n].id ELSE 0
        b == h.blocks
        hit(i) == b[i].allocation_id = id /\ b[i].state = BLOCK_ALLOCATED
        i == IF tracked /\ \E x \in 1..Len(b) : hit(x)
             THEN CHOOSE x \in 1..Len(b) : hit(x) /\ \A j \in 1..(x - 1) : ~hit(j)
             ELSE 0
        h1 == IF i = 0 THEN h
              ELSE [h EXCEPT !.blocks[i].state = BLOCK_FREED,
                             !.blocks[i].allocation_id = 0,
                             !.blocks[i].requested_size = 0,
                             !.stats.free_block_count = @ + 1]
        h2 == IF tracked THEN [h1 EXCEPT !.allocation_list = RemoveAt(@, n)] ELSE h1
    IN  common_add_log(h2, "FREE", id, 0, ptr % OFFSET_MASK, 1)

\* heap_free, line 191: update_stats
heap3_free_finish(h) == [h EXCEPT !.stats = common_update_stats(h.blocks, h.stats)]

heap3_free(h, ptr) == heap3_free_finish(heap3_free_record(h, ptr))

heap3_reset(h) == heap3_init(h, h.stats.total_size)

(***************************************************************************)
(* Allocator 5 (heap_5.c): three regions, each a static array with its     *)
(* own free list; one block table with region-local offsets.  Region r of  *)
(* the source is regions[r + 1] here; node = {size, region_id, next}.      *)
(***************************************************************************)
RECURSIVE BitAnd(_, _)
BitAnd(a, b) ==
    IF a = 0 \/ b = 0 THEN 0
    ELSE (a % 2) * (b % 2) + 2 * BitAnd(a \div 2, b \div 2)

region_configs == <<REGION_FLAG_FAST, REGION_FLAG_DMA, REGION_FLAG_UNCACHED>>

RegionStart == <<heap_region_0, heap_region_1, heap_region_2>>

RegionSize == <<REGION_0_SIZE, REGION_1_SIZE, REGION_2_SIZE>>

RegionRows(b, rid) == SelectSeq(b, LAMBDA x : x.region_id = rid)

update_region_stats(b, region) ==
    LET rb == RegionRows(b, region.region_id)
        free == SumSizes(rb, {BLOCK_FREE, BLOCK_FREED})
    IN  [region EXCEPT
            !.allocated_bytes = SumSizes(rb, {BLOCK_ALLOCATED}),
            !.free_bytes = free,
            !.allocation_count = CountStates(rb, {BLOCK_ALLOCATED}),
            !.free_block_count = CountStates(rb, {BLOCK_FREE, BLOCK_FREED}),
            !.largest_free_block = MaxOf(FreeSizes(rb)),
            !.smallest_free_block =
                IF CountStates(rb, {BLOCK_FREE, BLOCK_FREED}) = 0 THEN 0
                ELSE Min(region.size, MinOf(FreeSizes(rb))),
            !.min_free_bytes = MinFreeAfter(region.min_free_bytes, free)]

RECURSIVE SumField(_, _)
SumField(rs, f) == IF rs = <<>> THEN 0 ELSE Head(rs)[f] + SumField(Tail(rs), f)

update_global_stats(h) ==
    LET rs == [r \in 1..h.region_count |-> update_region_stats(h.blocks, h.regions[r])]
        free == SumField(rs, "free_bytes")
        nfree == SumField(rs, "free_block_count")
        smallest == {rs[r].smallest_free_block :
                        r \in {x \in 1..h.region_count : rs[x].free_block_count > 0}}
    IN  [h EXCEPT
            !.regions = rs,
            !.stats.allocated_bytes = SumField(rs, "allocated_bytes"),
            !.stats.free_bytes = free,
            !.stats.allocation_count = SumField(rs, "allocation_count"),
            !.stats.free_block_count = nfree,
            !.stats.largest_free_block =
                MaxOf({rs[r].largest_free_block : r \in 1..h.region_count}),
            !.stats.smallest_free_block =
                IF nfree = 0 THEN 0 ELSE Min(h.stats.total_size, MinOf(smallest)),
            !.stats.min_free_bytes = MinFreeAfter(h.stats.min_free_bytes, free)]

\* heap_define_regions, software simulation (USE_PHYSICAL_MEM = 0); the
\* loop over the regions, i = r - 1
RECURSIVE DefineRegion(_, _)
DefineRegion(h, r) ==
    IF r > 3 THEN h
    ELSE LET region == [start |-> RegionStart[r], size |-> RegionSize[r],
                        region_id |-> r - 1, flags |-> region_configs[r],
                        allocated_bytes |-> 0, free_bytes |-> RegionSize[r],
                        allocation_count |-> 0, free_block_count |-> 1,
                        largest_free_block |-> RegionSize[r],
                        smallest_free_block |-> RegionSize[r],
                        min_free_bytes |-> RegionSize[r]]
             fl == RegionStart[r]
             h1 == [h EXCEPT
                      !.regions = Append(@, region),
                      !.free_lists[r] = fl,
                      !.mem = Wr(Wr(Wr(@, fl, RegionSize[r]), fl + REGION_ID_FIELD, r - 1),
                                 fl + NEXT_FIELD_5, NULL)]
             h2 == IF Len(h1.blocks) < MAX_BLOCKS
                   THEN [h1 EXCEPT
                           !.blocks = Append(@, Block(0, RegionSize[r], BLOCK_FREE, 0,
                                                      h1.stats.timestamp_counter, 0, r - 1)),
                           !.stats.timestamp_counter = @ + 1]
                   ELSE h1
         IN  DefineRegion(h2, r + 1)

heap_define_regions(h) ==
    DefineRegion([h EXCEPT !.region_count = 3, !.regions = <<>>], 1)

heap5_init(h, size) ==
    LET h1 == [h EXCEPT !.stats = ZeroStats, !.blocks = <<>>, !.logs = <<>>,
                        !.coalesce_pending = 0]
        h2 == IF ~h1.initialized
              THEN [heap_define_regions(h1) EXCEPT !.initialized = TRUE]
              ELSE h1
        total == SumField(h2.regions, "size")
        h3 == [h2 EXCEPT !.stats.total_size = total, !.stats.next_allocation_id = 1,
                         !.stats.min_free_bytes = total]
        h4 == update_global_stats(h3)
    IN  common_add_log_with_region(h4, "INIT", 0, h4.stats.total_size, 0, 1, 0, 0)

\* "Skip regions that don't match required flags"
RegionPermitted(region_flags, flags) == ~(flags # 0 /\ BitAnd(region_flags, flags) = 0)

\* the region loop with the comparison against the best span of the regions
\* before left out: a later region's fitting span replaces the one held
RECURSIVE SearchRegions_LastRegion(_, _, _, _, _)
SearchRegions_LastRegion(h, r, total, flags, best) ==
    IF r > h.region_count THEN best
    ELSE IF ~RegionPermitted(h.regions[r].flags, flags)
         THEN SearchRegions_LastRegion(h, r + 1, total, flags, best)
         ELSE LET w == Walk(h.mem, h.free_lists[r], NEXT_FIELD_5, <<>>)
                  k == BestFit(h.mem, w.nodes, total)
              IN  IF w.cyclic THEN [r |-> r, nodes |-> w.nodes, k |-> 0, hang |-> TRUE]
                  ELSE SearchRegions_LastRegion(h, r + 1, total, flags,
                          IF k # 0
                          THEN [r |-> r, nodes |-> w.nodes, k |-> k, hang |-> FALSE]
                          ELSE best)

\* the search loop of heap_malloc_flags over regions r..region_count; best =
\* [r, nodes, k] of the node selected so far (r = 0: none)
RECURSIVE SearchRegions(_, _, _, _, _)
SearchRegions(h, r, total, flags, best) ==
    IF r > h.region_count THEN best
    ELSE IF ~RegionPermitted(h.regions[r].flags, flags)
         THEN SearchRegions(h, r + 1, total, flags, best)
         ELSE LET w == Walk(h.mem, h.free_lists[r], NEXT_FIELD_5, <<>>)
                  bound == IF best.r = 0 THEN 0 ELSE Rd(h.mem, best.nodes[best.k])
                  k == BestFit(h.mem, w.nodes, total)
              IN  IF w.cyclic THEN [r |-> r, nodes |-> w.nodes, k |-> 0, hang |-> TRUE]
                  ELSE SearchRegions(h, r + 1, total, flags,
                          IF k # 0 /\ (best.r = 0 \/ Rd(h.mem, w.nodes[k]) < bound)
                          THEN [r |-> r, nodes |-> w.nodes, k |-> k, hang |-> FALSE]
                          ELSE best)

SplitAndMark5(h, r, local_offset, best_fit, total, requested_size) ==
    LET b == h.blocks
        hit(i) == b[i].region_id = r - 1 /\ b[i].offset = local_offset /\ IsFree(b[i])
        i == IF \E x \in 1..Len(b) : hit(x)
             THEN CHOOSE x \in 1..Len(b) : hit(x) /\ \A j \in 1..(x - 1) : ~hit(j)
             ELSE 0
    IN  IF i = 0 THEN h
        ELSE LET original_size == b[i].size
                 split == /\ original_size > Wrap(total + SIZEOF_FREE_BLOCK_5 + SPLIT_SLACK)
                          /\ Len(b) < MAX_BLOCKS
                 remainder == best_fit + total
                 h1 == IF split
                       THEN [h EXCEPT
                               !.blocks = Append([@ EXCEPT ![i].size = total],
                                                 Block(local_offset + total,
                                                       original_size - total, b[i].state, 0,
                                                       h.stats.timestamp_counter, 0, r - 1)),
                               !.stats.timestamp_counter = @ + 1,
                               !.mem = Wr(Wr(Wr(@, remainder, original_size - total),
                                             remainder + REGION_ID_FIELD, r - 1),
                                          remainder + NEXT_FIELD_5, h.free_lists[r]),
                               !.free_lists[r] = remainder]
                       ELSE h
             IN  [h1 EXCEPT
                    !.blocks[i].state = BLOCK_ALLOCATED,
                    !.blocks[i].allocation_id = h1.stats.next_allocation_id,
                    !.blocks[i].timestamp = h1.stats.timestamp_counter,
                    !.blocks[i].requested_size = requested_size,
                    !.stats.timestamp_counter = @ + 1]

heap_malloc_flags(h, size, flags) ==
    IF ~h.initialized THEN [h |-> h, ret |-> NULL, hang |-> FALSE]
    ELSE
    LET aligned == align8(size)
        total == Wrap(aligned + SIZEOF_SIZE_T)
        best == SearchRegions(h, 1, total, flags,
                              [r |-> 0, nodes |-> <<>>, k |-> 0, hang |-> FALSE])
    IN  IF best.hang THEN [h |-> h, ret |-> NULL, hang |-> TRUE]
        ELSE IF best.r = 0
        THEN [h |-> common_add_log_with_region(h, "MALLOC", h.stats.next_allocation_id,
                                               size, 0, 0, NO_REGION, flags),
              ret |-> NULL, hang |-> FALSE]
        ELSE LET r == best.r
                 best_fit == best.nodes[best.k]
                 next == Rd(h.mem, best_fit + NEXT_FIELD_5)
                 h1 == IF best.k = 1 THEN [h EXCEPT !.free_lists[r] = next]
                       ELSE [h EXCEPT !.mem = Wr(@, best.nodes[best.k - 1] + NEXT_FIELD_5, next)]
                 h2 == [h1 EXCEPT !.mem = Wr(@, best_fit, aligned)]
                 local_offset == best_fit - h.regions[r].start
                 h3 == SplitAndMark5(h2, r, local_offset, best_fit, total, size)
                 h4 == common_add_log_with_region(h3, "MALLOC", h3.stats.next_allocation_id,
                                                  size, local_offset, 1, r - 1, flags)
                 h5 == [h4 EXCEPT !.stats.next_allocation_id = @ + 1]
                 h6 == [h5 EXCEPT !.blocks = common_sort_blocks(@)]
             IN  [h |-> update_global_stats(h6), ret |-> best_fit + SIZEOF_SIZE_T,
                  hang |-> FALSE]

heap5_malloc(h, size) == heap_malloc_flags(h, size, 0)

\* index (from 1) of the first region whose span holds p; region 0 when none
get_region_for_ptr(h, p) ==
    LET inside(r) == p >= h.regions[r].start /\ p < h.regions[r].start + h.regions[r].size
    IN  IF \E r \in 1..h.region_count : inside(r)
        THEN CHOOSE r \in 1..h.region_count : inside(r) /\ \A q \in 1..(r - 1) : ~inside(q)
        ELSE 1

CoalesceLeft5(c, rid) ==
    LET b == c.b  i == c.idx IN
    IF i > 1 /\ b[i - 1].region_id = rid /\ IsFree(b[i - 1])
       /\ b[i - 1].offset + b[i - 1].size = b[i].offset
    THEN [b |-> RemoveAt([b EXCEPT ![i - 1].size = @ + b[i].size,
                                   ![i - 1].state = BLOCK_FREE], i),
          idx |-> i - 1, did |-> TRUE]
    ELSE c

\* the right-neighbour merge without the "same region only" test
CoalesceRight5_AnyRegion(c, rid) ==
    LET b == c.b  i == c.idx IN
    IF i >= 1 /\ i < Len(b) /\ IsFree(b[i + 1])
       /\ b[i].offset + b[i].size = b[i + 1].offset
    THEN [b |-> RemoveAt([b EXCEPT ![i].size = @ + b[i + 1].size,
                                   ![i].state = BLOCK_FREE], i + 1),
          idx |-> i, did |-> TRUE]
    ELSE c

CoalesceRight5(c, rid) ==
    LET b == c.b  i == c.idx IN
    IF i >= 1 /\ i < Len(b) /\ b[i + 1].region_id = rid /\ IsFree(b[i + 1])
       /\ b[i].offset + b[i].size = b[i + 1].offset
    THEN [b |-> RemoveAt([b EXCEPT ![i].size = @ + b[i + 1].size,
                                   ![i].state = BLOCK_FREE], i + 1),
          idx |-> i, did |-> TRUE]
    ELSE c

immediate_neighbor_coalesce5(h, local_offset, rid) ==
    LET b == common_sort_blocks(h.blocks)
        hit(i) == b[i].offset = local_offset /\ b[i].region_id = rid
        freed_idx == IF \E x \in 1..Len(b) : hit(x)
                     THEN CHOOSE x \in 1..Len(b) : hit(x) /\ \A j \in 1..(x - 1) : ~hit(j)
                     ELSE 0
    IN  IF freed_idx = 0 THEN [h EXCEPT !.blocks = b]
        ELSE LET c == CoalesceRight5(CoalesceLeft5(
                        [b |-> b, idx |-> freed_idx, did |-> FALSE], rid), rid)
                 h1 == [h EXCEPT !.blocks = c.b]
             IN  IF c.did
                 THEN common_add_log_with_region(h1, "COALESCE", 0, 0, local_offset, 1, 0, 0)
                 ELSE h1

\* "Rebuild free lists": every Free row is pushed at the head of its
\* region's list, in table order
RECURSIVE Rebuild5(_, _, _, _)
Rebuild5(h, b, i, acc) ==
    IF i > Len(b) THEN acc
    ELSE IF b[i].state = BLOCK_FREE
         THEN LET r == b[i].region_id + 1
                  fb == h.regions[r].start + b[i].offset
              IN  Rebuild5(h, b, i + 1,
                     [mem |-> Wr(Wr(Wr(acc.mem, fb, b[i].size),
                                    fb + REGION_ID_FIELD, b[i].region_id),
                                 fb + NEXT_FIELD_5, acc.free_lists[r]),
                      free_lists |-> [acc.free_lists EXCEPT ![r] = fb]])
         ELSE Rebuild5(h, b, i + 1, acc)

\* full_coalesce; no function of heap_5.c calls it
full_coalesce5(h) ==
    LET s == SweepRows(common_sort_blocks(h.blocks), TRUE)
        h1 == [h EXCEPT !.blocks = s.b]
        h2 == IF s.n > 0
              THEN common_add_log_with_region(h1, "FULL_COALESCE", 0, s.n, 0, 1, 0, 0)
              ELSE h1
        cleared == [r \in DOMAIN h2.free_lists |->
                        IF r <= h2.region_count THEN NULL ELSE h2.free_lists[r]]
        r == Rebuild5(h2, h2.blocks, 1, [mem |-> h2.mem, free_lists |-> cleared])
    IN  [h2 EXCEPT !.mem = r.mem, !.free_lists = r.free_lists, !.coalesce_pending = 0]

\* heap_free(ptr), ptr non-null
heap5_free(h, ptr) ==
    IF ~h.initialized THEN h
    ELSE
    LET block_start == ptr - SIZEOF_SIZE_T
        user_size == Rd(h.mem, block_start)
        total == Wrap(user_size + SIZEOF_SIZE_T)
        r == get_region_for_ptr(h, block_start)
        rid == h.regions[r].region_id
        local_offset == block_start - h.regions[r].start
        b == h.blocks
        hit(i) == /\ b[i].offset = local_offset /\ b[i].region_id = rid
                  /\ b[i].state = BLOCK_ALLOCATED
        i == IF \E x \in 1..Len(b) : hit(x)
             THEN CHOOSE x \in 1..Len(b) : hit(x) /\ \A j \in 1..(x - 1) : ~hit(j)
             ELSE 0
        alloc_id == IF i = 0 THEN 0 ELSE b[i].allocation_id
        h1 == IF i = 0 THEN h
              ELSE [h EXCEPT !.blocks[i].state = BLOCK_FREED,
                             !.blocks[i].allocation_id = 0,
                             !.blocks[i].requested_size = 0]
        h2 == [h1 EXCEPT
                 !.mem = Wr(Wr(Wr(@, block_start, total), block_start + REGION_ID_FIELD, rid),
                            block_start + NEXT_FIELD_5, h1.free_lists[r]),
                 !.free_lists[r] = block_start]
        h3 == [immediate_neighbor_coalesce5(h2, local_offset, rid)
                 EXCEPT !.coalesce_pending = 1]
        h4 == common_add_log_with_region(h3, "FREE", alloc_id, 0, local_offset, 1, rid, 0)
        h5 == [h4 EXCEPT !.blocks = common_sort_blocks(@)]
    IN  update_global_stats(h5)

heap5_reset(h) == heap5_init([h EXCEPT !.initialized = FALSE], h.stats.total_size)

(***************************************************************************)
(* The state machine.  A step is one call of the exported interface by the *)
(* single caller.  live = the pointers malloc returned that the caller has *)
(* not freed (with the size asked for and the call that returned them),    *)
(* dangling = pointers of the caller that are no longer valid, valid =     *)
(* the caller never freed a dangling pointer, hung = a call is spinning    *)
(* in a loop that cannot end, last = the last call and its result,         *)
(* inited = heap_init has run, nops = the number of calls made.            *)
(***************************************************************************)
LivePtrs == {e.ptr : e \in live}

\* calls explored per behaviour: one more for the allocators with few inputs
Budget(v) == IF v \in {3, 5} THEN MaxOps ELSE MaxOps + 1

Ready(v) == variant = v /\ ~hung /\ nops < Budget(v)

InitCall(v, op, size, h2, kept) ==
    /\ Ready(v)
    /\ heap' = h2
    /\ live' = kept
    /\ dangling' = (dangling \cup LivePtrs) \ {e.ptr : e \in kept}
    /\ nops' = nops + 1
    /\ last' = [op |-> op, arg |-> size, flags |-> 0, ret |-> NULL]
    /\ inited' = (inited \/ op = "init")
    /\ UNCHANGED <<variant, valid, hung, thr>>

MallocCall(v, size, flags, r) ==
    /\ Ready(v)
    /\ heap' = r.h
    /\ hung' = r.hang
    /\ live' = IF r.ret # NULL
               THEN live \cup {[ptr |-> r.ret, n |-> size, seq |-> nops]}
               ELSE live
    /\ dangling' = dangling \ {r.ret}
    /\ nops' = nops + 1
    /\ last' = [op |-> "malloc", arg |-> size, flags |-> flags, ret |-> r.ret]
    /\ UNCHANGED <<variant, inited, valid, thr>>

\* free of a pointer the caller holds
FreeCall(v, e, h2) ==
    /\ Ready(v)
    /\ e \in live
    /\ heap' = h2
    /\ live' = live \ {e}
    /\ dangling' = IF \E x \in live \ {e} : x.ptr = e.ptr THEN dangling
                   ELSE dangling \cup {e.ptr}
    /\ nops' = nops + 1
    /\ last' = [op |-> "free", arg |-> e.ptr, flags |-> 0, ret |-> NULL]
    /\ UNCHANGED <<variant, inited, valid, hung, thr>>

\* free of a pointer that was already freed, or that an init invalidated
FreeDanglingCall(v, p, h2) ==
    /\ Ready(v)
    /\ p \in dangling
    /\ heap' = h2
    /\ valid' = FALSE
    /\ nops' = nops + 1
    /\ last' = [op |-> "free", arg |-> p, flags |-> 0, ret |-> NULL]
    /\ UNCHANGED <<variant, inited, live, dangling, hung, thr>>

\* heap_free(NULL) returns at once in every allocator
FreeNull ==
    /\ Ready(variant)
    /\ nops' = nops + 1
    /\ last' = [op |-> "free", arg |-> NULL, flags |-> 0, ret |-> NULL]
    /\ UNCHANGED <<variant, heap, inited, live, dangling, valid, hung, thr>>

\* clear_log(): log_count = 0
ClearLog ==
    /\ Ready(variant)
    /\ heap' = [heap EXCEPT !.logs = <<>>]
    /\ nops' = nops + 1
    /\ last' = [op |-> "clear_log", arg |-> 0, flags |-> 0, ret |-> NULL]
    /\ UNCHANGED <<variant, inited, live, dangling, valid, hung, thr>>

Heap1Init == \E size \in InitSizes : InitCall(1, "init", size, heap1_init(heap, size), {})
Heap1Reset == InitCall(1, "reset", heap.stats.total_size, heap1_reset(heap), {})
Heap1Malloc == \E size \in ReqSizes1 : MallocCall(1, size, 0, heap1_malloc(heap, size))
Heap1Free == \E e \in live : FreeCall(1, e, heap1_free(heap, e.ptr))
Heap1FreeAgain == \E p \in dangling : FreeDanglingCall(1, p, heap1_free(heap, p))

Heap2Init == \E size \in InitSizes : InitCall(2, "init", size, heap2_init(heap, size), {})
Heap2Reset == InitCall(2, "reset", heap.stats.total_size, heap2_reset(heap), {})
Heap2Malloc == \E size \in ReqSizes : MallocCall(2, size, 0, heap2_malloc(heap, size))
Heap2Free == \E e \in live : FreeCall(2, e, heap2_free(heap, e.ptr))
Heap2FreeAgain == \E p \in dangling : FreeDanglingCall(2, p, heap2_free(heap, p))

\* heap_init of Allocator 3 frees the tracked allocations; an allocation
\* whose tracking node could not be allocated stays with the host
Untracked3 == {e \in live : \A k \in 1..Len(heap.allocation_list) :
                                heap.allocation_list[k].ptr # e.ptr}
Heap3Init ==
    \E size \in InitSizes3 : InitCall(3, "init", size, heap3_init(heap, size), Untracked3)
Heap3Reset == InitCall(3, "reset", heap.stats.total_size, heap3_reset(heap), Untracked3)
Heap3Malloc ==
    \E size \in ReqSizes3, ptr \in {NULL} \cup (HostAddrs \ LivePtrs), node_ok \in BOOLEAN :
        /\ (ptr = NULL => node_ok)
        /\ MallocCall(3, size, 0, heap3_malloc(heap, size, ptr, node_ok))
Heap3Free == \E e \in live : FreeCall(3, e, heap3_free(heap, e.ptr))

Heap4Init == \E size \in InitSizes : InitCall(4, "init", size, heap4_init(heap, size), {})
Heap4Reset == InitCall(4, "reset", heap.stats.total_size, heap4_reset(heap), {})
Heap4Malloc == \E size \in ReqSizes : MallocCall(4, size, 0, heap4_malloc(heap, size))
Heap4Free == \E e \in live : FreeCall(4, e, heap4_free(heap, e.ptr))
Heap4FreeAgain == \E p \in dangling : FreeDanglingCall(4, p, heap4_free(heap, p))

Heap5Init == InitCall(5, "init", 0, heap5_init(heap, 0), {})
Heap5Reset == InitCall(5, "reset", heap.stats.total_size, heap5_reset(heap), {})
Heap5Malloc ==
    \E size \in ReqSizes5, flags \in FlagSet :
        MallocCall(5, size, flags, heap_malloc_flags(heap, size, flags))
Heap5Free == \E e \in live : FreeCall(5, e, heap5_free(heap, e.ptr))
Heap5FreeAgain == \E p \in dangling : FreeDanglingCall(5, p, heap5_free(heap, p))

(***************************************************************************)
(* Threads (Allocator 3 is built with -pthread).  thr.mutex = the thread   *)
(* that holds heap_mutex, thr.pc[t] = where thread t is in its call,       *)
(* thr.loc[t] = the call's argument and the host pointer it handles,       *)
(* thr.obs = what a thread reading through the query functions has seen.   *)
(* In the single-caller specifications no thread is ever inside a call.    *)
(***************************************************************************)
Threads == {1, 2}

UNLOCKED == 0

NoLocals == [size |-> 0, ptr |-> NULL]

ThrIdle ==
    [mutex |-> UNLOCKED, pc |-> [t \in Threads |-> "idle"],
     loc |-> [t \in Threads |-> NoLocals], obs |-> <<>>]

StartWith(V) ==
    /\ variant \in V
    /\ heap = ZeroHeap
    /\ inited = FALSE
    /\ live = {}
    /\ dangling = {}
    /\ valid = TRUE
    /\ hung = FALSE
    /\ nops = 0
    /\ last = [op |-> "none", arg |-> 0, flags |-> 0, ret |-> NULL]
    /\ thr = ThrIdle

Init == StartWith(1..5)
Init1 == StartWith({1})
Init2 == StartWith({2})
Init3 == StartWith({3})
Init4 == StartWith({4})
Init5 == StartWith({5})

Next1 == Heap1Init \/ Heap1Reset \/ Heap1Malloc \/ Heap1Free \/ Heap1FreeAgain
            \/ FreeNull \/ ClearLog
Next2 == Heap2Init \/ Heap2Reset \/ Heap2Malloc \/ Heap2Free \/ Heap2FreeAgain
            \/ FreeNull \/ ClearLog
Next3 == Heap3Init \/ Heap3Reset \/ Heap3Malloc \/ Heap3Free \/ FreeNull \/ ClearLog
Next4 == Heap4Init \/ Heap4Reset \/ Heap4Malloc \/ Heap4Free \/ Heap4FreeAgain
            \/ FreeNull \/ ClearLog
Next5 == Heap5Init \/ Heap5Reset \/ Heap5Malloc \/ Heap5Free \/ Heap5FreeAgain
            \/ FreeNull \/ ClearLog

Next == Next1 \/ Next2 \/ Next3 \/ Next4 \/ Next5

Spec == Init /\ [][Next]_vars
SpecHeap1 == Init1 /\ [][Next1]_vars
SpecHeap2 == Init2 /\ [][Next2]_vars
SpecHeap3 == Init3 /\ [][Next3]_vars
SpecHeap4 == Init4 /\ [][Next4]_vars
SpecHeap5 == Init5 /\ [][Next5]_vars

\* Allocators 1, 2, 4 and 5 with requests of every magnitude, up to
\* SIZE_MAX (size_t is unsigned: the interface accepts every value)
Heap1MallocWide ==
    \E size \in ReqSizes1 \cup WideSizes : MallocCall(1, size, 0, heap1_malloc(heap, size))
Heap2MallocWide ==
    \E size \in ReqSizes \cup WideSizes : MallocCall(2, size, 0, heap2_malloc(heap, size))
Heap4MallocWide ==
    \E size \in ReqSizes \cup WideSizes : MallocCall(4, size, 0, heap4_malloc(heap, size))
Heap5MallocWide ==
    \E size \in ReqSizes5 \cup WideSizes, flags \in FlagSet :
        MallocCall(5, size, flags, heap_malloc_flags(heap, size, flags))

InitWide == StartWith({1, 2, 4, 5})

NextWide ==
    \/ Heap1Init \/ Heap1MallocWide \/ Heap1Free
    \/ Heap2Init \/ Heap2MallocWide \/ Heap2Free
    \/ Heap4Init \/ Heap4MallocWide \/ Heap4Free
    \/ Heap5Init \/ Heap5MallocWide \/ Heap5Free

SpecWide == InitWide /\ [][NextWide]_vars

(***************************************************************************)
(* Allocator 3 called from several threads.  A call is: enter the          *)
(* function, pthread_mutex_lock, the body, pthread_mutex_unlock and        *)
(* return.  The body is taken in two steps, split where the table has      *)
(* been written and the statistics have not yet been recomputed from it.   *)
(* The query functions take no lock (lines 201-225), so a reading thread   *)
(* can run between any two steps.                                          *)
(***************************************************************************)
Waiting(t) == thr.pc[t] \in {"init_lock", "malloc_lock", "free_lock"}

InCriticalSection(t) ==
    thr.pc[t] \in {"init_a", "init_b", "malloc_a", "malloc_b", "free_a", "free_b"}

Holding(t) == thr.mutex = t

\* pointers a thread may pass to heap_free: returned by a heap_malloc that
\* has completed, and not being freed by a call in progress
InFlight == {thr.loc[u].ptr : u \in {x \in Threads : thr.pc[x] # "idle"}}

Returned == {e \in live : e.ptr \notin InFlight}

\* thread t enters a function: pc = the lock it is about to take
Enter(t, pc, size, ptr) ==
    /\ variant = 3
    /\ thr.pc[t] = "idle"
    /\ nops < MaxCalls
    /\ nops' = nops + 1
    /\ thr' = [thr EXCEPT !.pc[t] = pc, !.loc[t] = [size |-> size, ptr |-> ptr]]
    /\ UNCHANGED <<variant, heap, inited, live, dangling, valid, hung, last>>

CallInit(t) == \E size \in InitSizesT : Enter(t, "init_lock", size, NULL)

\* heap_reset reads stats.total_size before heap_init takes the mutex
CallReset(t) == Enter(t, "init_lock", heap.stats.total_size, NULL)

CallMalloc(t) == \E size \in ReqSizesT : Enter(t, "malloc_lock", size, NULL)

CallFree(t) == \E e \in Returned : Enter(t, "free_lock", 0, e.ptr)

\* heap_free(NULL): "if (!ptr) return;" comes before the lock
CallFreeNull(t) ==
    /\ variant = 3
    /\ thr.pc[t] = "idle"
    /\ nops < MaxCalls
    /\ nops' = nops + 1
    /\ last' = [op |-> "free", arg |-> NULL, flags |-> 0, ret |-> NULL]
    /\ UNCHANGED <<variant, heap, inited, live, dangling, valid, hung, thr>>

\* pthread_mutex_lock with the mutex taken at once, whoever holds it
Lock_NoWait(t) ==
    /\ Waiting(t)
    /\ thr' = [thr EXCEPT !.mutex = t,
                          !.pc[t] = CASE thr.pc[t] = "init_lock" -> "init_a"
                                      [] thr.pc[t] = "malloc_lock" -> "malloc_a"
                                      [] OTHER -> "free_a"]
    /\ UNCHANGED <<variant, heap, inited, live, dangling, valid, hung, nops, last>>

\* pthread_mutex_lock(&heap_mutex) returns: the mutex was free, t holds it
Lock(t) ==
    /\ Waiting(t)
    /\ thr.mutex = UNLOCKED
    /\ thr' = [thr EXCEPT !.mutex = t,
                          !.pc[t] = CASE thr.pc[t] = "init_lock" -> "init_a"
                                      [] thr.pc[t] = "malloc_lock" -> "malloc_a"
                                      [] OTHER -> "free_a"]
    /\ UNCHANGED <<variant, heap, inited, live, dangling, valid, hung, nops, last>>

\* first half of a body: thread t at `from` writes h2 and goes on to `to`
BodyStep(t, from, to, h2, ptr) ==
    /\ thr.pc[t] = from
    /\ heap' = h2
    /\ thr' = [thr EXCEPT !.pc[t] = to, !.loc[t].ptr = ptr]
    /\ UNCHANGED <<variant, inited, dangling, hung, nops, last>>

\* second half of a body, pthread_mutex_unlock(&heap_mutex) and the return
Return(t, from, op, arg, ret, h2) ==
    /\ thr.pc[t] = from
    /\ heap' = h2
    /\ thr' = [thr EXCEPT !.mutex = UNLOCKED, !.pc[t] = "idle", !.loc[t] = NoLocals]
    /\ last' = [op |-> op, arg |-> arg, flags |-> 0, ret |-> ret]
    /\ inited' = (inited \/ op = "init")
    /\ UNCHANGED <<variant, live, dangling, valid, hung, nops>>

InitClear(t) ==
    /\ BodyStep(t, "init_a", "init_b", heap3_init_clear(heap, thr.loc[t].size), NULL)
    /\ live' = Untracked3
    /\ UNCHANGED valid

InitTable(t) ==
    Return(t, "init_b", "init", thr.loc[t].size, NULL,
           heap3_init_table(heap, thr.loc[t].size))

MallocRecord(t) ==
    \E ptr \in {NULL} \cup (HostAddrs \ LivePtrs), node_ok \in BOOLEAN :
        /\ (ptr = NULL => node_ok)
        /\ BodyStep(t, "malloc_a", "malloc_b",
                    heap3_malloc_record(heap, thr.loc[t].size, ptr, node_ok), ptr)
        /\ live' = IF ptr # NULL
                   THEN live \cup {[ptr |-> ptr, n |-> thr.loc[t].size, seq |-> nops]}
                   ELSE live
        /\ UNCHANGED valid

MallocFinish(t) ==
    Return(t, "malloc_b", "malloc", thr.loc[t].size, thr.loc[t].ptr,
           heap3_malloc_finish(heap))

\* a heap_init that ran since the call was made has already freed the pointer
FreeRecord(t) ==
    /\ BodyStep(t, "free_a", "free_b", heap3_free_record(heap, thr.loc[t].ptr),
                thr.loc[t].ptr)
    /\ live' = {e \in live : e.ptr # thr.loc[t].ptr}
    /\ valid' = (valid /\ thr.loc[t].ptr \in LivePtrs)

FreeFinish(t) ==
    Return(t, "free_b", "free", thr.loc[t].ptr, NULL, heap3_free_finish(heap))

\* a thread reads get_heap_stats() and the rows get_block_count() /
\* get_block_info(i) give, here in one instant; `during` = where the other
\* threads are at that instant
Observe ==
    /\ variant = 3
    /\ thr.obs = <<>>
    /\ thr' = [thr EXCEPT !.obs = <<[stats |-> heap.stats, blocks |-> heap.blocks,
                                     during |-> {thr.pc[t] : t \in Threads}]>>]
    /\ UNCHANGED <<variant, heap, inited, live, dangling, valid, hung, nops, last>>

Body(t) ==
    \/ InitClear(t) \/ InitTable(t)
    \/ MallocRecord(t) \/ MallocFinish(t)
    \/ FreeRecord(t) \/ FreeFinish(t)

NextThreads3 ==
    \E t \in Threads :
        \/ CallInit(t) \/ CallReset(t) \/ CallMalloc(t) \/ CallFree(t) \/ CallFreeNull(t)
        \/ Lock(t)
        \/ Body(t)

NextReader3 == NextThreads3 \/ Observe

\* fair scheduling: a thread inside the mutex keeps running, and a thread
\* waiting for the mutex gets it if it is free again and again
FairThreads3 ==
    \A t \in Threads : WF_vars(Body(t)) /\ SF_vars(Lock(t))

SpecThreads3 == Init3 /\ [][NextThreads3]_vars /\ FairThreads3

SpecReader3 == Init3 /\ [][NextReader3]_vars

(***************************************************************************)
(* Properties.                                                             *)
(***************************************************************************)
BlockEnd(x) == x.offset + x.size

\* the rows of b tile [0, total): none empty or out of range, no two overlap,
\* each starts at 0 or where another ends, and one ends at total
IsPartition(b, total) ==
    /\ Len(b) >= 1
    /\ \A i \in 1..Len(b) : b[i].offset >= 0 /\ b[i].size > 0 /\ BlockEnd(b[i]) <= total
    /\ \A i, j \in 1..Len(b) :
          i # j => (BlockEnd(b[i]) <= b[j].offset \/ BlockEnd(b[j]) <= b[i].offset)
    /\ \A i \in 1..Len(b) :
          b[i].offset = 0 \/ \E j \in 1..Len(b) : BlockEnd(b[j]) = b[i].offset
    /\ \E i \in 1..Len(b) : BlockEnd(b[i]) = total

SortedByOffset(b) == \A i \in 1..(Len(b) - 1) : b[i].offset <= b[i + 1].offset

\* C1: Allocators 2 and 4, after heap_init and under valid usage: after
\* every call the block table, in offset order, tiles [0, total_size) and
\* allocated_bytes + free_bytes = total_size.
C1_TablePartition ==
    (variant \in {2, 4} /\ inited /\ valid) =>
        /\ IsPartition(heap.blocks, heap.stats.total_size)
        /\ heap.stats.allocated_bytes + heap.stats.free_bytes = heap.stats.total_size

C1_Witness ==
    /\ variant = 4 /\ inited /\ valid
    /\ last.op = "free" /\ last.arg # NULL
    /\ Len(heap.blocks) >= 3
    /\ \E i \in 1..Len(heap.blocks) : heap.blocks[i].state = BLOCK_ALLOCATED
    /\ \E i \in 1..Len(heap.blocks) : heap.blocks[i].state = BLOCK_FREE

\* C2: Allocator 4 under valid usage: every heap_malloc and heap_free
\* returns; the free list never becomes cyclic.
C2_FreeListAcyclic ==
    (variant = 4 /\ valid) =>
        (~hung /\ ~Walk(heap.mem, heap.free_list, NEXT_FIELD, <<>>).cyclic)

NoConsecutiveFree(b) == \A i \in 1..(Len(b) - 1) : ~(IsFree(b[i]) /\ IsFree(b[i + 1]))

\* C3: Allocator 4: after every heap_free the offset-sorted table holds no
\* two consecutive rows that are both Free or Freed.
C3_NoAdjacentFreeAfterFree ==
    (variant = 4 /\ last.op = "free" /\ last.arg # NULL) =>
        (SortedByOffset(heap.blocks) /\ NoConsecutiveFree(heap.blocks))

C3_Witness ==
    /\ variant = 4 /\ last.op = "free" /\ last.arg # NULL
    /\ Len(heap.logs) >= 2
    /\ heap.logs[Len(heap.logs) - 1].action = "COALESCE"
    /\ \E i \in 1..Len(heap.blocks) : heap.blocks[i].state = BLOCK_ALLOCATED

\* C4: Allocator 5: after every heap_free no two blocks of one region that
\* touch (a.offset + a.size = b.offset) are both Free or Freed.
C4_NoAdjacentFreeInRegion ==
    (variant = 5 /\ last.op = "free" /\ last.arg # NULL) =>
        \A i, j \in 1..Len(heap.blocks) :
            (/\ heap.blocks[i].region_id = heap.blocks[j].region_id
             /\ BlockEnd(heap.blocks[i]) = heap.blocks[j].offset)
            => ~(IsFree(heap.blocks[i]) /\ IsFree(heap.blocks[j]))

HasEveryBit(region_flags, flags) == BitAnd(region_flags, flags) = flags

\* C5: Allocator 5: heap_malloc_flags with flags # 0 succeeds only inside a
\* region whose mask has every requested bit, and returns NULL when no
\* region has them all.
C5_FlagsAllBits ==
    (variant = 5 /\ inited /\ last.op = "malloc" /\ last.flags # 0) =>
        /\ last.ret # NULL =>
              \E r \in 1..heap.region_count :
                  /\ HasEveryBit(heap.regions[r].flags, last.flags)
                  /\ last.ret >= heap.regions[r].start
                  /\ last.ret < heap.regions[r].start + heap.regions[r].size
        /\ (\A r \in 1..heap.region_count : ~HasEveryBit(heap.regions[r].flags, last.flags))
              => last.ret = NULL

\* C6: Allocator 5: heap_init in any state leaves one Free block per region
\* covering it, each free list a single span of the region's size,
\* allocated_bytes = 0 and free_bytes = total_size = the sum of the regions.
C6_InitResetsRegions ==
    (variant = 5 /\ last.op = "init") =>
        /\ heap.region_count = 3
        /\ Len(heap.blocks) = heap.region_count
        /\ \A r \in 1..heap.region_count :
              /\ \E i \in 1..Len(heap.blocks) :
                    heap.blocks[i] = [heap.blocks[i] EXCEPT
                                        !.offset = 0, !.size = RegionSize[r],
                                        !.state = BLOCK_FREE, !.region_id = r - 1]
              /\ heap.free_lists[r] = RegionStart[r]
              /\ Rd(heap.mem, RegionStart[r]) = RegionSize[r]
              /\ Rd(heap.mem, RegionStart[r] + NEXT_FIELD_5) = NULL
        /\ heap.stats.allocated_bytes = 0
        /\ heap.stats.free_bytes = heap.stats.total_size
        /\ heap.stats.total_size = REGION_0_SIZE + REGION_1_SIZE + REGION_2_SIZE

InitLog(size) ==
    <<[action |-> "INIT", allocation_id |-> 0, size |-> size, offset |-> 0,
       success |-> 1, timestamp |-> 1, region_id |-> 0, flags |-> 0]>>

AllocatedRows(b) == {i \in 1..Len(b) : b[i].state = BLOCK_ALLOCATED}

IdsWellFormed(h) ==
    /\ \A i \in AllocatedRows(h.blocks) :
          /\ h.blocks[i].allocation_id # 0
          /\ h.blocks[i].allocation_id < h.stats.next_allocation_id
    /\ \A i, j \in AllocatedRows(h.blocks) :
          i # j => h.blocks[i].allocation_id # h.blocks[j].allocation_id
    /\ \A i \in 1..Len(h.blocks) :
          IsFree(h.blocks[i]) =>
              h.blocks[i].allocation_id = 0 /\ h.blocks[i].requested_size = 0

C9_MinFreeMonotone ==
    /\ [](heap.stats.min_free_bytes <= heap.stats.total_size)
    /\ [][last'.op \notin {"init", "reset"} =>
            heap'.stats.min_free_bytes <= heap.stats.min_free_bytes]_vars

\* C10: Allocator 3: after every heap_malloc and heap_free the shadow table
\* tiles [0, total_size): allocated_bytes + free_bytes = total_size.
C10_ShadowPartition ==
    (variant = 3 /\ inited /\ last.op \in {"malloc", "free"}) =>
        /\ heap.stats.allocated_bytes + heap.stats.free_bytes = heap.stats.total_size
        /\ IsPartition(heap.blocks, heap.stats.total_size)

MutualExclusion ==
    /\ \A t, u \in Threads : (InCriticalSection(t) /\ InCriticalSection(u)) => t = u
    /\ \A t \in Threads : Holding(t) <=> InCriticalSection(t)

\* C11: Allocator 3 called from several threads: at most one thread at a
\* time is inside the body of heap_init, heap_malloc or heap_free, a thread
\* holds the mutex exactly while it is inside a body (every path releases
\* it before returning), and under fair scheduling a thread waiting for
\* the mutex acquires it.
C11_MutexSerializes ==
    /\ []MutualExclusion
    /\ \A t \in Threads : Waiting(t) ~> Holding(t)

C11_Witness ==
    /\ thr.pc[1] = "malloc_b" /\ Holding(1)
    /\ Waiting(2)
    /\ inited

StatsAgree(st, b) ==
    /\ st.allocated_bytes = SumSizes(b, {BLOCK_ALLOCATED})
    /\ st.free_bytes = SumSizes(b, {BLOCK_FREE, BLOCK_FREED})
    /\ st.allocation_count = CountStates(b, {BLOCK_ALLOCATED})
    /\ st.free_block_count = CountStates(b, {BLOCK_FREE, BLOCK_FREED})

\* C12: Allocator 3: what a thread reads through get_heap_stats,
\* get_block_count and get_block_info while other threads run heap_malloc
\* or heap_free is never torn: the statistics read are those of the block
\* table read.
C12_ReaderNeverTorn ==
    (/\ variant = 3
     /\ thr.obs # <<>>
     /\ thr.obs[1].during \cap {"init_a", "init_b"} = {}
     /\ thr.obs[1].during \cap {"malloc_a", "malloc_b", "free_a", "free_b"} # {})
    => StatsAgree(thr.obs[1].stats, thr.obs[1].blocks)

HasSize(x) == x.size > 0

FreeRowIs(b, from, to) ==
    LET free == {i \in 1..Len(b) : b[i].state = BLOCK_FREE}
    IN  IF from < to
        THEN /\ Cardinality(free) = 1
             /\ \A i \in free : b[i].offset = from /\ BlockEnd(b[i]) = to
        ELSE free = {}

\* C13: Allocator 1: after every successful heap_malloc, also once the
\* allocations table is at capacity, the table (its non-empty rows) tiles
\* [0, total_size), its one Free row is [heap_offset, total_size), and the
\* sizes of its Allocated rows add up to stats.allocated_bytes.
C13_BumpTablePartition ==
    (variant = 1 /\ inited /\ last.op = "malloc" /\ last.ret # NULL) =>
        /\ IsPartition(SelectSeq(heap.blocks, HasSize), heap.stats.total_size)
        /\ FreeRowIs(heap.blocks, heap.heap_offset, heap.stats.total_size)
        /\ SumSizes(heap.blocks, {BLOCK_ALLOCATED}) = heap.stats.allocated_bytes

\* C14: Allocator 1: heap_malloc(size) succeeds iff heap_offset + aligned <=
\* total_size, aligned = (size + 7) & ~7; on success it returns the address
\* at the old heap_offset, the table has the Allocated row [old offset, old
\* offset + aligned) with the id that was next, heap_offset is advanced by
\* aligned and the id counter by one.
C14_BumpMalloc ==
    [][(variant = 1 /\ inited /\ nops' = nops + 1 /\ last'.op = "malloc") =>
        LET aligned == align8(last'.arg)
            old == heap.heap_offset
        IN  /\ (last'.ret # NULL) <=> (old + aligned <= heap.stats.total_size)
            /\ last'.ret # NULL =>
                  /\ last'.ret = heap_memory + old
                  /\ \E i \in 1..Len(heap'.blocks) :
                        /\ heap'.blocks[i].state = BLOCK_ALLOCATED
                        /\ heap'.blocks[i].offset = old
                        /\ heap'.blocks[i].size = aligned
                        /\ heap'.blocks[i].allocation_id = heap.stats.next_allocation_id
                  /\ heap'.heap_offset = old + aligned
                  /\ heap'.stats.next_allocation_id = heap.stats.next_allocation_id + 1
                  /\ heap'.stats.allocated_bytes = heap'.heap_offset
                  /\ heap'.stats.free_bytes = heap.stats.total_size - heap'.heap_offset
      ]_vars

\* a step that is a call of heap_free in allocator v
FreeStep(v) == variant = v /\ nops' = nops + 1 /\ last'.op = "free"

LogFull == Len(heap.logs) >= MAX_LOG_ENTRIES

\* the step appends one log entry with this action and changes nothing else
\* of `heap` but the timestamp counter
AppendsOnly(action) ==
    /\ Len(heap'.logs) = Len(heap.logs) + 1
    /\ SubSeq(heap'.logs, 1, Len(heap.logs)) = heap.logs
    /\ heap'.logs[Len(heap'.logs)].action = action
    /\ heap'.stats.timestamp_counter = heap.stats.timestamp_counter + 1
    /\ heap' = [heap EXCEPT !.logs = heap'.logs,
                            !.stats.timestamp_counter = heap'.stats.timestamp_counter]

Frame1 ==
    /\ heap'.heap_offset = heap.heap_offset
    /\ heap'.stats.allocated_bytes = heap.stats.allocated_bytes
    /\ heap'.stats.free_bytes = heap.stats.free_bytes
    /\ heap'.stats.allocation_count = heap.stats.allocation_count
    /\ heap'.blocks = heap.blocks

\* C15 as stated: Allocator 1: heap_free(ptr), any ptr, any state, leaves
\* heap_offset, allocated_bytes, free_bytes, allocation_count and the table
\* unchanged; for a non-null ptr its only effect is one appended FREE log
\* entry and the advanced timestamp counter.
C15_FreeOnlyLogs_AsStated ==
    [][FreeStep(1) =>
        /\ Frame1
        /\ IF last'.arg # NULL THEN AppendsOnly("FREE") ELSE heap' = heap]_vars

\* C15: Allocator 1: heap_free(ptr), any ptr, any state, leaves heap_offset,
\* allocated_bytes, free_bytes, allocation_count and the table unchanged;
\* for a non-null ptr its only effect is one appended FREE log entry and
\* the advanced timestamp counter, and no effect at all when the log
\* already holds MAX_LOG_ENTRIES entries.
C15_FreeOnlyLogs ==
    [][FreeStep(1) =>
        /\ Frame1
        /\ IF last'.arg # NULL /\ ~LogFull THEN AppendsOnly("FREE") ELSE heap' = heap]_vars

C15_Witness ==
    /\ variant = 1 /\ last.op = "free" /\ last.arg # NULL
    /\ heap.heap_offset = heap.stats.total_size
    /\ heap.stats.total_size > 0
    /\ heap.logs # <<>>
    /\ heap.logs[Len(heap.logs)].action = "FREE"

\* the rows whose state the step changes
StateChanged == {i \in 1..Len(heap.blocks) : heap'.blocks[i].state # heap.blocks[i].state}

\* C16: Allocator 2: heap_free never changes the number of blocks nor any
\* block's offset or size, and changes the state of at most one block, from
\* Allocated to Freed; so free neighbours of the freed block are not merged
\* with it and keep their state.
C16_FreeNeverMerges ==
    [][FreeStep(2) =>
        /\ Len(heap'.blocks) = Len(heap.blocks)
        /\ \A i \in 1..Len(heap.blocks) :
              /\ heap'.blocks[i].offset = heap.blocks[i].offset
              /\ heap'.blocks[i].size = heap.blocks[i].size
        /\ Cardinality(StateChanged) <= 1
        /\ \A i \in StateChanged :
              /\ heap.blocks[i].state = BLOCK_ALLOCATED
              /\ heap'.blocks[i].state = BLOCK_FREED]_vars

\* a heap_free has just freed a block that has a free neighbour on each side
C16_Witness ==
    /\ variant = 2 /\ last.op = "free" /\ last.arg # NULL
    /\ \E i \in 2..(Len(heap.blocks) - 1) :
          /\ heap.blocks[i].offset = last.arg - SIZEOF_SIZE_T - heap_memory
          /\ heap.blocks[i].state = BLOCK_FREED
          /\ heap.blocks[i - 1].state \in {BLOCK_FREE, BLOCK_FREED}
          /\ heap.blocks[i + 1].state \in {BLOCK_FREE, BLOCK_FREED}
          /\ BlockEnd(heap.blocks[i - 1]) = heap.blocks[i].offset
          /\ BlockEnd(heap.blocks[i]) = heap.blocks[i + 1].offset

\* the state of the row at this offset, 0 if no row starts there
StateAt(b, offset) ==
    LET i == FindBlock(b, offset, {BLOCK_FREE, BLOCK_ALLOCATED, BLOCK_FREED})
    IN  IF i = 0 THEN 0 ELSE b[i].state

\* p = heap_malloc(n); heap_free(p); q = heap_malloc(n) from table and
\* free list h: q is p, the second heap_malloc keeps the number of rows, and
\* the row at p's offset goes Allocated, Freed, Allocated
ReusesBlock2(h, n) ==
    LET r1 == heap2_malloc(h, n)
        p == r1.ret
        offset == p - SIZEOF_SIZE_T - heap_memory
        h2 == heap2_free(r1.h, p)
        r2 == heap2_malloc(h2, n)
    IN  (~r1.hang /\ p # NULL) =>
            /\ ~r2.hang
            /\ r2.ret = p
            /\ Len(r2.h.blocks) = Len(h2.blocks)
            /\ StateAt(r1.h.blocks, offset) = BLOCK_ALLOCATED
            /\ StateAt(h2.blocks, offset) = BLOCK_FREED
            /\ StateAt(r2.h.blocks, offset) = BLOCK_ALLOCATED

\* C17: Allocator 2: in any reachable state, if p = heap_malloc(n) succeeds
\* and is immediately followed by heap_free(p) and q = heap_malloc(n), then
\* q == p, the number of table blocks is the same before and after the
\* second heap_malloc, and the block at that offset goes Allocated, Freed,
\* Allocated.
C17_FreeThenMallocReuses ==
    (variant = 2 /\ inited /\ ~hung) => \A n \in ReqSizes : ReusesBlock2(heap, n)

AnyState == {BLOCK_FREE, BLOCK_ALLOCATED, BLOCK_FREED}

RegionBytes(b, rid) == SumSizes(RegionRows(b, rid), AnyState)

\* row x starts inside row y of the same region
StartsIn(x, y) ==
    x.region_id = y.region_id /\ y.offset <= x.offset /\ x.offset < BlockEnd(y)

\* table b2 was made from table b by splitting and merging rows inside
\* their regions: the start of every row of b is still in a row of its
\* region, every row of b2 starts in what was a row of its region, and no
\* region's rows have gained or lost a byte
KeepsRegions(b, b2) ==
    /\ \A i \in 1..Len(b) : \E j \in 1..Len(b2) : StartsIn(b[i], b2[j])
    /\ \A j \in 1..Len(b2) : \E i \in 1..Len(b) : StartsIn(b2[j], b[i])
    /\ \A rid \in 0..2 : RegionBytes(b2, rid) = RegionBytes(b, rid)

MallocStep(V) ==
    variant \in V /\ inited /\ nops' = nops + 1 /\ last'.op = "malloc" /\ ~hung'

AllocatedBlocks(b) == {b[i] : i \in {x \in 1..Len(b) : b[x].state = BLOCK_ALLOCATED}}

LogsFailedMalloc ==
    /\ Len(heap'.logs) > Len(heap.logs)
    /\ heap'.logs[Len(heap'.logs)].action = "MALLOC"
    /\ heap'.logs[Len(heap'.logs)].success = 0
    /\ heap'.logs[Len(heap'.logs)].size = last'.arg

\* C19: Allocators 1, 2, 4, 5: every heap_malloc / heap_malloc_flags call
\* that cannot be satisfied (one the allocator refuses, and every request
\* for more bytes than the whole heap has) returns NULL, appends a MALLOC
\* log entry with success = 0, and changes neither next_allocation_id nor
\* the set of Allocated blocks.
C19_FailedMallocChangesNothing ==
    [][MallocStep({1, 2, 4, 5}) =>
        /\ last'.arg > heap.stats.total_size => last'.ret = NULL
        /\ last'.ret = NULL =>
              /\ LogsFailedMalloc
              /\ heap'.stats.next_allocation_id = heap.stats.next_allocation_id
              /\ AllocatedBlocks(heap'.blocks) = AllocatedBlocks(heap.blocks)]_vars

\* no Allocated row starts at the block ptr names (Allocator 2)
NotAllocated2(ptr) ==
    FindBlock(heap.blocks, ptr - SIZEOF_SIZE_T - heap_memory, {BLOCK_ALLOCATED}) = 0

\* the table is unchanged and so is every statistic computed from it
TableAndStatsKept ==
    /\ heap'.blocks = heap.blocks
    /\ heap'.stats = [heap.stats EXCEPT
                        !.timestamp_counter = heap'.stats.timestamp_counter]

AppendsUnattributedFree ==
    /\ Len(heap'.logs) = Len(heap.logs) + 1
    /\ SubSeq(heap'.logs, 1, Len(heap.logs)) = heap.logs
    /\ heap'.logs[Len(heap'.logs)].action = "FREE"
    /\ heap'.logs[Len(heap'.logs)].allocation_id = 0

\* C20 as stated: Allocator 2: heap_free(NULL) changes no state and appends
\* no log entry; heap_free of a pointer whose block is not currently
\* Allocated leaves the block table and the derived statistics unchanged
\* and appends one FREE entry with allocation_id = 0.
C20_InvalidFreeTolerated_AsStated ==
    [][FreeStep(2) =>
        IF last'.arg = NULL THEN heap' = heap
        ELSE NotAllocated2(last'.arg) =>
                (TableAndStatsKept /\ AppendsUnattributedFree)]_vars

\* C20: Allocator 2: heap_free(NULL) changes no state and appends no log
\* entry; heap_free of a pointer whose block is not currently Allocated
\* leaves the block table and the derived statistics unchanged and appends
\* one FREE entry with allocation_id = 0, or no entry when the log already
\* holds MAX_LOG_ENTRIES entries.
C20_InvalidFreeTolerated ==
    [][FreeStep(2) =>
        IF last'.arg = NULL THEN heap' = heap
        ELSE NotAllocated2(last'.arg) =>
                /\ TableAndStatsKept
                /\ IF LogFull THEN heap'.logs = heap.logs
                   ELSE AppendsUnattributedFree]_vars

\* the second heap_free of a pointer has been logged without an id, its
\* block still shown Freed
C20_Witness ==
    /\ variant = 2 /\ last.op = "free" /\ last.arg # NULL /\ ~valid
    /\ Len(heap.logs) >= 2
    /\ LET n == Len(heap.logs) IN
          /\ heap.logs[n].action = "FREE" /\ heap.logs[n].allocation_id = 0
          /\ heap.logs[n - 1].action = "FREE" /\ heap.logs[n - 1].allocation_id # 0
          /\ heap.logs[n - 1].offset = heap.logs[n].offset
          /\ StateAt(heap.blocks, heap.logs[n].offset) = BLOCK_FREED

\* s is an initial part of t
IsPrefix(s, t) == Len(s) <= Len(t) /\ SubSeq(t, 1, Len(s)) = s

\* C21: all variants: log_count never exceeds MAX_LOG_ENTRIES; a call other
\* than init/reset/clear_log keeps every existing entry as it is (it can
\* only append), so once the log holds MAX_LOG_ENTRIES entries it leaves
\* log_count and all entries unchanged.
C21_LogCappedAppendOnly ==
    /\ [](Len(heap.logs) <= MAX_LOG_ENTRIES)
    /\ [][last'.op \notin {"init", "reset", "clear_log"} =>
            /\ IsPrefix(heap.logs, heap'.logs)
            /\ LogFull => heap'.logs = heap.logs]_vars

\* a heap_free of Allocator 2 found the log full: its FREE entry is missing
C21_Witness ==
    /\ variant = 2 /\ last.op = "free" /\ last.arg # NULL
    /\ Len(heap.logs) = MAX_LOG_ENTRIES
    /\ heap.logs[MAX_LOG_ENTRIES].action = "MALLOC"

\* C22: all variants: after every mutating call, enumerating the block table
\* by index yields the blocks in non-decreasing offset order.
C22_TableSortedByOffset ==
    (inited /\ last.op \in {"init", "reset", "malloc", "free"}) => SortedByOffset(heap.blocks)

\* the (offset, size) pairs of the nodes reachable from free_list
FreeListSpans(h) ==
    LET nodes == Walk(h.mem, h.free_list, NEXT_FIELD, <<>>).nodes
    IN  {<<nodes[k] - heap_memory, Rd(h.mem, nodes[k])>> : k \in 1..Len(nodes)}

\* the (offset, size) pairs of the Free and Freed rows of the table
FreeTableSpans(b) == {<<b[i].offset, b[i].size>> : i \in {j \in 1..Len(b) : IsFree(b[j])}}

\* C23: Allocator 4: after every heap_malloc and heap_free the (offset, size)
\* pairs of the free-list nodes are exactly the (offset, size) pairs of the
\* Free and Freed rows of the table.
C23_FreeListMatchesTable4 ==
    (variant = 4 /\ valid /\ ~hung /\ last.op \in {"malloc", "free"} /\ last.arg # NULL) =>
        FreeListSpans(heap) = FreeTableSpans(heap.blocks)

\* C24: Allocator 2 under valid usage: after every heap_malloc and heap_free
\* the (offset, size) pairs of the free-list nodes are exactly those of the
\* Free and Freed rows; a block allocated without a split comes back to the
\* list with its full table size.
C24_FreeListMatchesTable2 ==
    (variant = 2 /\ valid /\ ~hung /\ last.op \in {"malloc", "free"} /\ last.arg # NULL) =>
        FreeListSpans(heap) = FreeTableSpans(heap.blocks)

\* the bytes an allocation occupies, as offsets into the heap: the size_t
\* header before the returned pointer and the aligned payload after it
LiveLo(e) == e.ptr - heap_memory - SIZEOF_SIZE_T
LiveHi(e) == e.ptr - heap_memory + align8(e.n)

LiveDisjoint == \A e, f \in live : e # f => (LiveHi(e) <= LiveLo(f) \/ LiveHi(f) <= LiveLo(e))

LiveInside == \A e \in live : LiveLo(e) >= 0 /\ LiveHi(e) <= heap.stats.total_size

\* C25: Allocator 4 under valid usage: the ranges [p - header, p + align8(n))
\* of the live allocations are pairwise disjoint and lie inside
\* [0, total_size); heap_malloc never returns a pointer that is still live.
C25_LiveRangesDisjoint4 == (variant = 4 /\ valid) => (LiveDisjoint /\ LiveInside)

\* C26: Allocator 2 under valid usage: the ranges [p - header, p + align8(n))
\* of the live allocations are pairwise disjoint and lie inside
\* [0, total_size); heap_malloc never returns a pointer that is still live.
C26_LiveRangesDisjoint2 == (variant = 2 /\ valid) => (LiveInside /\ LiveDisjoint)

\* region rid of h, once every run of touching Free and Freed rows of that
\* region is merged, has a Free row that holds `size` bytes with the header
FitsAfterMerge5(h, size, flags) ==
    LET total == Wrap(align8(size) + SIZEOF_SIZE_T)
        merged(rid) == SweepRows(RegionRows(common_sort_blocks(h.blocks), rid), TRUE).b
    IN  \E r \in 1..h.region_count :
            /\ RegionPermitted(h.regions[r].flags, flags)
            /\ \E i \in 1..Len(merged(r - 1)) :
                    /\ merged(r - 1)[i].state = BLOCK_FREE
                    /\ merged(r - 1)[i].size >= total

\* C27: Allocator 5: a heap_malloc_flags call made with coalesce_pending set
\* runs a full coalesce and retries before it fails, so a request that fits
\* in a merged Free block of a permitted region gets a pointer.
C27_CoalesceAndRetry5 ==
    [][(/\ MallocStep({5}) /\ valid
        /\ heap.coalesce_pending # 0
        /\ FitsAfterMerge5(heap, last'.arg, last'.flags))
       => last'.ret # NULL]_vars

\* heap_malloc enters with coalesce_pending set and, after its update_stats,
\* external_fragmentation above FRAGMENTATION_THRESHOLD
ThresholdTriggers4 ==
    /\ heap.coalesce_pending # 0
    /\ external_fragmentation_above_threshold(common_update_stats(heap.blocks, heap.stats))

\* the entries the step appended hold a FULL_COALESCE entry of `merges`
\* merges with a MALLOC entry behind it
LogsFullCoalesceThenMalloc(merges) ==
    \E k \in (Len(heap.logs) + 1)..Len(heap'.logs) :
        /\ heap'.logs[k].action = "FULL_COALESCE"
        /\ heap'.logs[k].size = merges
        /\ \E j \in (k + 1)..Len(heap'.logs) : heap'.logs[j].action = "MALLOC"

\* C28: Allocator 4: a heap_malloc called with coalesce_pending set and
\* external fragmentation above 30 appends a FULL_COALESCE entry carrying the
\* number of merges, and after it the call's MALLOC entry (the log having
\* room for both).
C28_ThresholdLogsFullCoalesce ==
    [][(/\ MallocStep({4}) /\ valid
        /\ Len(heap.logs) + 2 <= MAX_LOG_ENTRIES
        /\ ThresholdTriggers4)
       => LogsFullCoalesceThenMalloc(SweepRows(common_sort_blocks(heap.blocks), FALSE).n)]_vars

\* the table of h once every run of touching Free and Freed rows is merged
MergedTable4(h) == SweepRows(common_sort_blocks(h.blocks), FALSE).b

FitsAfterMerge4(h, size) ==
    \E i \in 1..Len(MergedTable4(h)) :
        /\ IsFree(MergedTable4(h)[i])
        /\ MergedTable4(h)[i].size >= align8(size) + SIZEOF_SIZE_T

\* what a failing heap_malloc that ran full_coalesce leaves behind: the merged
\* table, the free list rebuilt from its Free rows, coalesce_pending clear
CoalescedOnce4 ==
    /\ heap'.coalesce_pending = 0
    /\ heap'.blocks = MergedTable4(heap)
    /\ FreeListSpans(heap') = FreeTableSpans(heap'.blocks)

\* C29: Allocator 4: heap_malloc returns NULL only if the table with all runs
\* of adjacent Free/Freed blocks merged has no free block of at least
\* align8(size) + header bytes; a failing call entered with coalesce_pending
\* set has run one full coalesce and one retry, and leaves coalesce_pending
\* clear.
C29_NullOnlyAfterCoalesce ==
    [][(MallocStep({4}) /\ last'.ret = NULL)
       => (/\ ~FitsAfterMerge4(heap, last'.arg)
           /\ heap.coalesce_pending # 0 => CoalescedOnce4)]_vars

\* a heap_malloc that failed right after a heap_free, with an allocation live
C29_Witness ==
    /\ variant = 4 /\ valid /\ ~hung
    /\ last.op = "malloc" /\ last.ret = NULL
    /\ heap.coalesce_pending = 0
    /\ live # {}
    /\ Len(heap.logs) >= 2
    /\ heap.logs[Len(heap.logs)].action = "MALLOC"
    /\ heap.logs[Len(heap.logs)].success = 0
    /\ heap.logs[Len(heap.logs) - 1].action = "FREE"

\* the row heap_free(last'.arg) is about: the Allocated row at the offset of
\* the block the pointer names (0 when there is none)
FreedRow4 == FindBlock(heap.blocks, last'.arg - SIZEOF_SIZE_T - heap_memory, {BLOCK_ALLOCATED})

Touches(x, y) == x.offset + x.size = y.offset

LeftFree4(i) == i > 1 /\ IsFree(heap.blocks[i - 1]) /\ Touches(heap.blocks[i - 1], heap.blocks[i])

RightFree4(i) ==
    i < Len(heap.blocks) /\ IsFree(heap.blocks[i + 1]) /\ Touches(heap.blocks[i], heap.blocks[i + 1])

Span(x) == <<x.offset, x.size, x.state>>

Spans(b) == [k \in 1..Len(b) |-> Span(b[k])]

\* the COALESCE entries among those the step appended
CoalesceEntriesAppended ==
    Cardinality({k \in (Len(heap.logs) + 1)..Len(heap'.logs) : heap'.logs[k].action = "COALESCE"})

\* rows lo..hi of the table became one Free row at the lowest offset with the
\* summed size; the other rows are as they were
MergedInto(lo, hi) ==
    LET b == heap.blocks
        sum == SumSizes(SubSeq(b, lo, hi), {BLOCK_FREE, BLOCK_ALLOCATED, BLOCK_FREED})
    IN  Spans(heap'.blocks) = Spans(SubSeq(b, 1, lo - 1))
                              \o <<<<b[lo].offset, sum, BLOCK_FREE>>>>
                              \o Spans(SubSeq(b, hi + 1, Len(b)))

FreeCoalesces4(i, entries) ==
    IF LeftFree4(i) \/ RightFree4(i)
    THEN /\ MergedInto(IF LeftFree4(i) THEN i - 1 ELSE i, IF RightFree4(i) THEN i + 1 ELSE i)
         /\ CoalesceEntriesAppended = entries
    ELSE /\ Spans(heap'.blocks) = Spans([heap.blocks EXCEPT ![i].state = BLOCK_FREED])
         /\ CoalesceEntriesAppended = 0

\* C30 as stated: Allocator 4: a heap_free whose block touches a Free or Freed
\* left and/or right neighbour replaces those two or three rows by one Free
\* row at the lowest offset with the summed size and appends exactly one
\* COALESCE entry; with no free neighbour it appends no COALESCE entry and
\* leaves the block Freed.
C30_FreeCoalescesNeighbours_AsStated ==
    [][(FreeStep(4) /\ last'.arg # NULL /\ FreedRow4 # 0) => FreeCoalesces4(FreedRow4, 1)]_vars

\* C30: Allocator 4: a heap_free whose block touches a Free or Freed left
\* and/or right neighbour replaces those two or three rows by one Free row at
\* the lowest offset with the summed size and appends exactly one COALESCE
\* entry, none when the log already holds MAX_LOG_ENTRIES entries; with no
\* free neighbour it appends no COALESCE entry and leaves the block Freed.
C30_FreeCoalescesNeighbours ==
    [][(FreeStep(4) /\ last'.arg # NULL /\ FreedRow4 # 0)
       => FreeCoalesces4(FreedRow4, IF LogFull THEN 0 ELSE 1)]_vars

\* a heap_free that merged three rows into one
C30_Witness ==
    /\ variant = 4 /\ last.op = "free" /\ last.arg # NULL
    /\ Len(heap.logs) >= 2
    /\ heap.logs[Len(heap.logs) - 1].action = "COALESCE"
    /\ heap.logs[Len(heap.logs)].action = "FREE"
    /\ heap.logs[Len(heap.logs)].allocation_id # 0
    /\ \E i \in 1..Len(heap.blocks) :
        /\ heap.blocks[i].state = BLOCK_FREE
        /\ heap.blocks[i].offset < last.arg - SIZEOF_SIZE_T - heap_memory
        /\ heap.blocks[i].offset + heap.blocks[i].size
             > last.arg - SIZEOF_SIZE_T - heap_memory + Rd(heap.mem, last.arg - SIZEOF_SIZE_T)

\* the heap as heap_malloc of Allocator 4 sees it when it selects its span:
\* after the full coalesce the threshold triggers, and after the forced one
\* when the first search found nothing
AtSelection4(h, size) ==
    LET total == Wrap(align8(size) + SIZEOF_SIZE_T)
        h1 == [h EXCEPT !.stats = common_update_stats(h.blocks, h.stats)]
        h2 == IF h1.coalesce_pending # 0 /\ external_fragmentation_above_threshold(h1.stats)
              THEN full_coalesce4(h1) ELSE h1
        k1 == BestFit(h2.mem, Walk(h2.mem, h2.free_list, NEXT_FIELD, <<>>).nodes, total)
    IN  IF k1 = 0 /\ h2.coalesce_pending # 0 THEN full_coalesce4(h2) ELSE h2

HasSpan(b, offset, size, state) ==
    \E i \in 1..Len(b) : b[i].offset = offset /\ b[i].size = size /\ b[i].state = state

\* the split policy on a heap_malloc step that returned a pointer: `pre` is
\* the heap at the selection, i the Free or Freed row at the selected offset
SplitPolicy(pre, i) ==
    LET B == pre.blocks[i].size
        offset == pre.blocks[i].offset
        need == Wrap(align8(last'.arg) + SIZEOF_SIZE_T)
        remainder == heap_memory + offset + need
    IN  IF B > need + SIZEOF_FREE_BLOCK + SPLIT_SLACK /\ Len(pre.blocks) < MAX_BLOCKS
        THEN /\ Len(heap'.blocks) = Len(pre.blocks) + 1
             /\ HasSpan(heap'.blocks, offset, need, BLOCK_ALLOCATED)
             /\ HasSpan(heap'.blocks, offset + need, B - need, pre.blocks[i].state)
             /\ heap'.free_list = remainder
             /\ Rd(heap'.mem, remainder) = B - need
        ELSE /\ Len(heap'.blocks) = Len(pre.blocks)
             /\ HasSpan(heap'.blocks, offset, B, BLOCK_ALLOCATED)
             /\ ~HasSpan(heap'.blocks, offset + need, B - need, pre.blocks[i].state)

SplitPolicyFrom(pre) ==
    LET i == FindBlock(pre.blocks, last'.ret - SIZEOF_SIZE_T - heap_memory,
                       {BLOCK_FREE, BLOCK_FREED})
    IN  i # 0 => SplitPolicy(pre, i)

Fitting(mem, nodes, need) == {k \in 1..Len(nodes) : Rd(mem, nodes[k]) >= need}

\* k is a fitting node of minimum size, and the one nearest the head among
\* the fitting nodes of that size
IsBestFit(mem, nodes, need, k) ==
    /\ k \in Fitting(mem, nodes, need)
    /\ \A j \in Fitting(mem, nodes, need) :
        \/ Rd(mem, nodes[j]) > Rd(mem, nodes[k])
        \/ (Rd(mem, nodes[j]) = Rd(mem, nodes[k]) /\ j >= k)

\* C32: Allocator 2: heap_malloc(size) selects, among the free-list nodes
\* with node.size >= need = align8(size) + header, one of minimum size, the
\* nearest to the head among several of that size; it returns NULL iff no
\* node has node.size >= need.
C32_BestFit2 ==
    [][MallocStep({2}) =>
        LET nodes == Walk(heap.mem, heap.free_list, NEXT_FIELD, <<>>).nodes
            need == Wrap(align8(last'.arg) + SIZEOF_SIZE_T)
        IN  /\ (last'.ret = NULL) <=> (Fitting(heap.mem, nodes, need) = {})
            /\ last'.ret # NULL =>
                 \E k \in 1..Len(nodes) :
                    /\ nodes[k] = last'.ret - SIZEOF_SIZE_T
                    /\ IsBestFit(heap.mem, nodes, need, k)]_vars

\* a heap_malloc that passed over a head node too small and a larger node
\* that fits, both still on the list
C32_Witness ==
    /\ variant = 2 /\ valid /\ ~hung
    /\ last.op = "malloc" /\ last.ret # NULL
    /\ LET nodes == Walk(heap.mem, heap.free_list, NEXT_FIELD, <<>>).nodes
           need == align8(last.arg) + SIZEOF_SIZE_T
       IN  /\ Len(nodes) >= 2
           /\ Rd(heap.mem, nodes[1]) < need
           /\ \E k \in 2..Len(nodes) : Rd(heap.mem, nodes[k]) > need
           /\ \E i \in 1..Len(heap.blocks) :
                /\ heap.blocks[i].offset = last.ret - SIZEOF_SIZE_T - heap_memory
                /\ heap.blocks[i].size = need

\* the nodes of the free lists of regions r..region_count, region by region
\* and in list order
RECURSIVE AllNodes5(_, _)
AllNodes5(h, r) ==
    IF r > h.region_count THEN <<>>
    ELSE Walk(h.mem, h.free_lists[r], NEXT_FIELD_5, <<>>).nodes \o AllNodes5(h, r + 1)

\* C33: Allocator 5: heap_malloc_flags(size, 0), which heap_malloc(size) is,
\* selects over the free lists of all regions a span of minimum size among
\* those with size >= align8(size) + header (ties: lowest region index, then
\* list order), and returns NULL only if no region's list holds such a span.
C33_GlobalBestFit5 ==
    [][(MallocStep({5}) /\ last'.flags = 0) =>
        LET nodes == AllNodes5(heap, 1)
            need == Wrap(align8(last'.arg) + SIZEOF_SIZE_T)
        IN  /\ last'.ret = NULL => Fitting(heap.mem, nodes, need) = {}
            /\ last'.ret # NULL =>
                 \E k \in 1..Len(nodes) :
                    /\ nodes[k] = last'.ret - SIZEOF_SIZE_T
                    /\ IsBestFit(heap.mem, nodes, need, k)]_vars

\* a heap_malloc_flags(size, 0) that took its span from a region other than
\* the first while the first region's list holds a larger span that fits
C33_Witness ==
    /\ variant = 5 /\ valid /\ ~hung
    /\ last.op = "malloc" /\ last.flags = 0 /\ last.ret # NULL
    /\ last.ret >= heap_region_1
    /\ \E k \in 1..Len(AllNodes5(heap, 1)) :
        /\ AllNodes5(heap, 1)[k] < heap_region_1
        /\ Rd(heap.mem, AllNodes5(heap, 1)[k]) > align8(last.arg) + SIZEOF_SIZE_T

\* C34: Allocator 4 under valid usage: a successful heap_malloc leaves an
\* Allocated block at the offset of its MALLOC log entry carrying the logged
\* allocation_id, and stats.allocation_count is the number of live
\* allocations.
C34_MallocRecorded4 ==
    (variant = 4 /\ valid /\ ~hung /\ last.op = "malloc" /\ last.ret # NULL) =>
        /\ \E i \in 1..Len(heap.blocks) :
            /\ heap.blocks[i].offset = last.ret - SIZEOF_SIZE_T - heap_memory
            /\ heap.blocks[i].state = BLOCK_ALLOCATED
            /\ heap.blocks[i].allocation_id = heap.stats.next_allocation_id - 1
        /\ heap.stats.allocation_count = Cardinality(live)

\* C35: Allocator 3: every successful heap_malloc (its tracking node
\* created) is represented by an Allocated block of the shadow table carrying
\* its allocation id, so that the number of Allocated shadow blocks stays
\* equal to the length of the tracking list.
C35_ShadowTracksAllocations ==
    [][(/\ MallocStep({3}) /\ last'.ret # NULL
        /\ Len(heap'.allocation_list) = Len(heap.allocation_list) + 1
        /\ CountStates(heap.blocks, {BLOCK_ALLOCATED}) = Len(heap.allocation_list))
       => /\ \E i \in 1..Len(heap'.blocks) :
                /\ heap'.blocks[i].state = BLOCK_ALLOCATED
                /\ heap'.blocks[i].allocation_id = heap'.allocation_list[1].id
          /\ CountStates(heap'.blocks, {BLOCK_ALLOCATED}) = Len(heap'.allocation_list)]_vars

\* C36: Allocator 1: between two init/reset calls heap_offset never
\* decreases and never exceeds total_size, for every request size of the
\* range of size_t.
C36_BumpCursorMonotone ==
    [][(variant = 1 /\ inited /\ nops' = nops + 1 /\ last'.op \notin {"init", "reset"})
       => /\ heap'.heap_offset >= heap.heap_offset
          /\ heap'.heap_offset <= heap'.stats.total_size]_vars

\* C37: Allocators 2 and 4: for every size of the range of size_t a
\* successful heap_malloc(size) yields a block whose tracked size is at
\* least size + header, and a request whose rounded size wraps around does
\* not succeed.
C37_BlockHoldsRequest ==
    (variant \in {2, 4} /\ valid /\ ~hung /\ last.op = "malloc" /\ last.ret # NULL) =>
        /\ last.arg + 7 <= SIZE_MAX
        /\ \A i \in 1..Len(heap.blocks) :
            (/\ heap.blocks[i].offset = last.ret - SIZEOF_SIZE_T - heap_memory
             /\ heap.blocks[i].state = BLOCK_ALLOCATED)
            => heap.blocks[i].size >= last.arg + SIZEOF_SIZE_T

\* C38: Allocator 2: a second heap_free of the same pointer does not link the
\* span into the free list again: the list stays acyclic and every later
\* heap_malloc returns.
C38_DoubleFreeKeepsListAcyclic ==
    [][(/\ FreeStep(2) /\ valid
        /\ last.op = "free" /\ last.arg # NULL /\ last'.arg = last.arg)
       => /\ heap'.free_list = heap.free_list
          /\ FreeListSpans(heap') = FreeListSpans(heap)
          /\ ~Walk(heap'.mem, heap'.free_list, NEXT_FIELD, <<>>).cyclic]_vars

\* the number of elements of the block array of allocator v
TableCapacity(v) == IF v = 1 THEN MAX_LOG_ENTRIES ELSE MAX_BLOCKS

\* a free-list node the call heap_malloc(size) / heap_malloc_flags(size,
\* flags) may take holds the request
SpanAvailable(size, flags) ==
    LET need == Wrap(align8(size) + SIZEOF_SIZE_T)
        at4 == AtSelection4(heap, size)
    IN  CASE variant = 2 ->
               Fitting(heap.mem, Walk(heap.mem, heap.free_list, NEXT_FIELD, <<>>).nodes,
                       need) # {}
          [] variant = 4 ->
               Fitting(at4.mem, Walk(at4.mem, at4.free_list, NEXT_FIELD, <<>>).nodes,
                       need) # {}
          [] variant = 5 ->
               \E r \in 1..heap.region_count :
                   /\ RegionPermitted(heap.regions[r].flags, flags)
                   /\ Fitting(heap.mem,
                              Walk(heap.mem, heap.free_lists[r], NEXT_FIELD_5, <<>>).nodes,
                              need) # {}
          [] OTHER -> FALSE

\* C39: all variants: the number of table blocks never exceeds the capacity
\* of the block array, so no slot at an index >= the capacity is written;
\* a malloc on a full table that finds a span still succeeds, and creates no
\* row.
C39_TableNeverOverflows ==
    [][/\ Len(heap'.blocks) <= TableCapacity(variant)
       /\ (MallocStep(1..5) /\ Len(heap.blocks) = TableCapacity(variant)) =>
            /\ Len(heap'.blocks) <= Len(heap.blocks)
            /\ SpanAvailable(last'.arg, last'.flags) => last'.ret # NULL]_vars

\* a heap_malloc that found the table full and took a row that would have
\* been split whole: every row is Allocated
C39_Witness ==
    /\ last.op = "malloc" /\ last.ret # NULL /\ ~hung /\ valid
    /\ Len(heap.blocks) = TableCapacity(variant)
    /\ \A i \in 1..Len(heap.blocks) : heap.blocks[i].state = BLOCK_ALLOCATED
    /\ \E i \in 1..Len(heap.blocks) :
        /\ heap.blocks[i].allocation_id = heap.stats.next_allocation_id - 1
        /\ heap.blocks[i].size > align8(last.arg) + SIZEOF_SIZE_T + SIZEOF_FREE_BLOCK + SPLIT_SLACK

\* C40: all variants: within one init/reset epoch the timestamps of the log
\* entries are strictly increasing in log order, and the timestamp of every
\* table block differs from every log-entry timestamp and from the timestamp
\* of every other block; all of them were drawn from the one counter, which
\* is past each of them.
C40_TimestampsDistinct ==
    LET L == heap.logs
        B == heap.blocks
    IN  /\ \A i, j \in 1..Len(L) : i < j => L[i].timestamp < L[j].timestamp
        /\ \A i \in 1..Len(B) : \A j \in 1..Len(L) : B[i].timestamp # L[j].timestamp
        /\ \A i, j \in 1..Len(B) : i # j => B[i].timestamp # B[j].timestamp
        /\ \A i \in 1..Len(L) : L[i].timestamp < heap.stats.timestamp_counter
        /\ \A i \in 1..Len(B) : B[i].timestamp < heap.stats.timestamp_counter

\* a heap_malloc that stamped a remainder row and the allocated row, after a
\* heap_free, with at least three entries in the log
C40_Witness ==
    /\ last.op = "malloc" /\ last.ret # NULL /\ ~hung
    /\ Len(heap.logs) >= 3
    /\ heap.logs[Len(heap.logs) - 1].action = "FREE"
    /\ Len(heap.blocks) >= 3
    /\ \E i, j \in 1..Len(heap.blocks) :
        /\ heap.blocks[i].state = BLOCK_ALLOCATED
        /\ heap.blocks[i].timestamp = heap.blocks[j].timestamp + 1
        /\ heap.logs[Len(heap.logs)].timestamp = heap.blocks[i].timestamp + 1

====
